---- MODULE Spec2Model ----
(***************************************************************************)
(* Model of the multiplayer coordination core of melonDS-net:              *)
(*   - NetplaySession (lockstep engine): input ring, RunFrame, desync      *)
(*     check, instance threads and their barrier, savestate blob sync      *)
(*   - BlobTransfer (chunked blob receiver)                                *)
(*   - LAN (player table, ConnectedBitmask, host/client control plane,     *)
(*     RX queue of MP packets)                                             *)
(* Each subsystem has its own specification (SpecEngine, SpecDesync, ...). *)
(* Every action leaves the variables of the other subsystems unchanged.    *)
(***************************************************************************)
EXTENDS Integers, Sequences, FiniteSets, TLC

\* ------------------------------------------------------------------------
\* Program constants
\* ------------------------------------------------------------------------
kNetplayMaxPlayers == 4
Blob_SRAM == 0
Blob_Savestate0 == 1
Blob_MAX == 5
INPUT_BUF_SIZE == 256
DESYNC_CHECK_INTERVAL == 60
kLocalhost == 16777343   \* 0x0100007F
kStaleMs == 500          \* ProcessLAN: time_last - 500
kDefaultRecvTimeout == 25
kDiscoveryTickMs == 1000 \* ProcessDiscovery: (tick - DiscoveryLastTick) < 1000
kDiscoveryKeepMs == 5000 \* ProcessDiscovery: age < 5000

\* ------------------------------------------------------------------------
\* Bounds of the model
\* ------------------------------------------------------------------------
MaxFrame == 3          \* RunFrame is not taken past this frame in SpecEngine
MaxDelay == 1          \* input delays 0..MaxDelay are tried by Init
MaxInstances == 2      \* Init is tried with 2..MaxInstances players
MaxDesyncFrame == 121  \* RunFrame is not taken past this frame in SpecDesync
MaxThreadFrame == 2    \* RunFrame is not taken past this frame in SpecThreads
ChunkSize == 2         \* bytes per BlobChunk (kBlobChunkSize = 0x10000 in the source, scaled down)
MaxBlobLen == 3        \* longest savestate / blob, in bytes
MaxInject == 3         \* blob messages delivered out of protocol in SpecBlob
MaxLanSessions == 4    \* StartHost / StartClient calls, all machines together
MaxToggles == 1        \* Begin / End calls
MaxMPPackets == 1      \* SendPacketGeneric calls
MaxRxAdvances == 1     \* clock advances between consumer calls in SpecRX
MaxRxPackets == 2      \* packets the network thread enqueues in SpecRX
MaxRxCalls == 1        \* consumer calls in SpecRX
MaxRxFlips == 2        \* ConnectedBitmask changes in SpecRX
MaxRingFrame == 257    \* frames run in SpecRing: once around the ring and one more
MaxEndCalls == 2       \* EndSession calls per machine in SpecEnd
MaxBeacons == 2        \* datagrams arriving at the discovery socket in SpecDiscovery
MaxTpEvents == 6       \* StartHost calls and CONNECT events of the transport
MaxDiscMs == 7000      \* how far the clock runs in SpecDiscovery
MaxLocalInputs == 1    \* ring slots holding an entered input in SpecRing

\* The two netplay sessions of the model: 0 is the host's, 1 the client's.
Sessions == {0, 1}

Min(a, b) == IF a < b THEN a ELSE b

\* ------------------------------------------------------------------------
\* State
\* ------------------------------------------------------------------------
VARIABLES
    \* --- NetplaySession, one per session ---
    Active,            \* Active flag
    NumInstances,
    LocalPlayerID,
    InputDelay,
    CurrentFrame,
    HostMode,
    InputBuf,          \* [session] -> function from written cells <<p, idx>> to InputFrame
    InputReady,        \* [session] -> set of cells <<p, idx>> flagged ready
    LastStateHash,
    LastHashFrame,
    TransportConnected,\* Transport.IsConnected()
    ctrlChan,          \* [session] -> control messages in flight towards it
    \* --- observations (not program state) ---
    Applied,           \* what the last ApplyInputs of a session read
    StateHashAt,       \* hashes a session computed, by checkpoint frame
    AlertsHandled,     \* DesyncAlert messages a session has handled
    DesyncFired,       \* frames for which a session's OnDesync ran
    \* --- instance threads of session 0 and their barrier ---
    ThreadsRunning,
    FrameBarrier,      \* NoBarrier or [Threshold, Count, Generation]
    ctlPc,             \* where the controller (main thread) stands
    ctlGen,            \* 'gen' captured by the controller's arrive_and_wait
    wPc,               \* where each instance thread stands
    wGen,              \* 'gen' captured by each instance thread's arrive_and_wait
    InstFrames,        \* observation: emulator frames each instance ran in this RunFrame
    \* --- savestate blobs, host session 0 -> client session 1 ---
    BlobRecv,          \* the client's BlobTransfer receivers, one per blob type
    blobChan,          \* Blob* control messages in flight towards the client
    SentStates,        \* observation: what HostSendStates serialized, <<>> before it ran
    LoadedStates,      \* observation: what ClientReceiveStates loaded, per instance
    StatesLoaded,      \* observation: ClientReceiveStates has returned true
    BlobEndObs,        \* observation: what each receiver's last BlobEnd saw
    injected,          \* number of blob messages the network delivered out of protocol
    \* --- LAN, one object per machine ---
    LanActive,         \* LAN::Active
    IsHost,
    Players,           \* [machine] -> the 16-slot player table
    NumPlayers,
    MaxPlayers,
    MyPlayer,
    HostAddress,
    ConnectedBitmask,  \* [machine] -> set of the bit positions that are set
    RemotePeers,       \* [machine] -> [slot] -> NullPeer or the machine behind the peer
    RXQueue,           \* [machine] -> queue of accepted MP packets
    connPhase,         \* [client] -> position in StartClient's handshake loop
    \* --- the ENet connection between each client machine and the host machine ---
    hostPeer,          \* [client] -> state of the host-side peer
    peerData,          \* [ENet peer of the host] -> the peer's data: NullPeer or a slot index
    peerOf,            \* [client] -> the ENet peer of the host that serves its connection
    clientPeerUp,      \* [client] -> the client-side peer exists
    toHost,            \* [client] -> events queued for the host's enet_host_service
    toClient,          \* [client] -> events queued for the client's enet_host_service
    \* --- observations and counters ---
    lanSessions,       \* number of StartHost / StartClient calls so far
    forged,            \* observation: the host has stored a PlayerInfo that claimed status Host
    toggles,           \* number of Begin / End calls so far
    lastRecv,          \* [machine] -> the packet RecvPacketGeneric returned last
    LastHostID,
    LastHostPeer,
    mpCount,           \* number of SendPacketGeneric calls so far
    cleanJoin,         \* observation: no connection has ended since the last StartHost
    ownIdArrived,      \* observation: the network delivered an MP packet carrying the receiver's id
    \* --- LAN, the RX queue of one participant against its millisecond clock ---
    rxNow,             \* Platform::GetMSCount()
    rxQueue,           \* RXQueue, each packet with the stamp NetworkThreadFunc wrote into Magic
    MPRecvTimeout,
    rxConnected,       \* ConnectedBitmask, as the set of the bit positions that are set
    rxCall,            \* the consumer call in progress on the emulation thread
    rxDelivered,       \* observation: the packets the last consumer call copied out, with the time
    rxReturned,        \* observation: what the last consumer call returned
    rxCount,           \* numbers of clock advances, packets, calls and bitmask changes so far
    endLog,            \* observation: per machine, EndSession calls made and those that got past the Active test
    \* --- LAN discovery of one machine against its clock ---
    discNow,           \* Platform::GetMSCount() of the machine
    DiscoverySocket,   \* TRUE when the socket is open (not INVALID_SOCKET)
    DiscoveryLastTick,
    DiscoveryList,     \* key (source address) -> the stored beacon: its Tick and its receive stamp Magic
    discIsHost,        \* IsHost of the machine
    discInbox,         \* datagrams waiting in the socket, oldest first
    discSent,          \* the last beacon the host branch sent
    discLastValid,     \* observation: per source, the tick at which a valid beacon of it was last read
    discLastFresh,     \* observation: the same for beacons with a sender tick above the stored one
    discCount,         \* datagrams that have arrived so far
    \* --- mutexes: one LAN instance, one NetplayTransport, one NetplaySession's input ring ---
    lkHolder,          \* [mutex] -> the thread that holds it, or NoThread
    lkOp,              \* [thread] -> the statements of the operation it is in (<<>>: none)
    lkPc,              \* [thread] -> index of the statement it is at
    lkHost,            \* [host object] -> "null", "live", or "freed" (destroyed, pointer not yet cleared)
    lkActive,          \* LAN::Active
    lkIsHost,          \* LAN::IsHost
    NetThreadRunning,
    netThreadAlive,    \* the LAN network thread exists and has not left its loop
    \* --- NetplayTransport in host mode ---
    tpHost,            \* NetplayTransport::Host != nullptr
    Peers,             \* NetplayTransport::Peers: [index] -> ENet peer or NullPeer
    NumPeers,          \* NetplayTransport::NumPeers
    tpPeerData,        \* [ENet peer] -> peer->data as an integer
    tpUp,              \* the ENet peers that are connected
    tpCount            \* CONNECT events and StartHost calls so far

engineVars == <<Active, NumInstances, LocalPlayerID, InputDelay, CurrentFrame,
                HostMode, InputBuf, InputReady, LastStateHash, LastHashFrame,
                TransportConnected, ctrlChan,
                Applied, StateHashAt, AlertsHandled, DesyncFired>>

threadVars == <<ThreadsRunning, FrameBarrier, ctlPc, ctlGen, wPc, wGen, InstFrames>>

blobVars == <<BlobRecv, blobChan, SentStates, LoadedStates, StatesLoaded, BlobEndObs, injected>>

lanVars == <<LanActive, IsHost, Players, NumPlayers, MaxPlayers, MyPlayer, HostAddress,
             ConnectedBitmask, RemotePeers, RXQueue, connPhase, hostPeer, peerData, peerOf,
             clientPeerUp, toHost, toClient, lanSessions, forged, toggles, lastRecv,
             LastHostID, LastHostPeer, mpCount, cleanJoin, ownIdArrived>>

endVars == <<endLog>>

discVars == <<discNow, DiscoverySocket, DiscoveryLastTick, DiscoveryList, discIsHost, discInbox,
              discSent, discLastValid, discLastFresh, discCount>>

lockVars == <<lkHolder, lkOp, lkPc, lkHost, lkActive, lkIsHost, NetThreadRunning, netThreadAlive>>

rxVars == <<rxNow, rxQueue, MPRecvTimeout, rxConnected, rxCall, rxDelivered, rxReturned, rxCount>>

tpVars == <<tpHost, Peers, NumPeers, tpPeerData, tpUp, tpCount>>

vars == <<engineVars, threadVars, blobVars, lanVars, rxVars, endVars, discVars, lockVars, tpVars>>

\* ------------------------------------------------------------------------
\* InputFrame and the ring
\* ------------------------------------------------------------------------
ZeroInput == [FrameNum |-> 0, KeyMask |-> 0, Touching |-> 0, TouchX |-> 0,
              TouchY |-> 0, LidClosed |-> 0, Checksum |-> 0]

NeutralInput(f) == [FrameNum |-> f, KeyMask |-> 4095, Touching |-> 0, TouchX |-> 0,
                    TouchY |-> 0, LidClosed |-> 0, Checksum |-> 0]

\* Inputs a player can enter; FrameNum is whatever the caller left there.
PressedInput == [FrameNum |-> 0, KeyMask |-> 4094, Touching |-> 1, TouchX |-> 10,
                 TouchY |-> 20, LidClosed |-> 1, Checksum |-> 0]

LocalInputs == {PressedInput}

\* Frame numbers carried by inputs arriving from the network.
RemoteFrameNums == 0..(MaxFrame + MaxDelay)

\* memset(InputBuf, 0): a cell that was never written holds the zero frame.
Cell(buf, p, idx) == IF <<p, idx>> \in DOMAIN buf THEN buf[<<p, idx>>] ELSE ZeroInput

WriteCell(buf, p, idx, v) ==
    [c \in (DOMAIN buf) \cup {<<p, idx>>} |-> IF c = <<p, idx>> THEN v ELSE buf[c]]

EmptyBuf == [c \in {} |-> ZeroInput]

NoApplied == [frame |-> -1, n |-> 0, inputs |-> <<>>, ready |-> <<>>]

PrefillCellsFirstPlayer(numPlayers, inputDelay) ==
    {<<0, f % INPUT_BUF_SIZE>> : f \in 0..(inputDelay - 1)}

\* Init's pre-fill loops: every player, every frame below the delay.
PrefillCells(numPlayers, inputDelay) ==
    {<<p, f % INPUT_BUF_SIZE>> : p \in 0..(numPlayers - 1), f \in 0..(inputDelay - 1)}

PrefillBuf(numPlayers, inputDelay) ==
    [c \in PrefillCells(numPlayers, inputDelay) |->
        \* the last f written to a slot wins; below 256 frames that is c[2]
        NeutralInput(CHOOSE f \in 0..(inputDelay - 1) :
            /\ f % INPUT_BUF_SIZE = c[2]
            /\ \A g \in 0..(inputDelay - 1) : g % INPUT_BUF_SIZE = c[2] => g <= f)]

\* ReadyForFrame(frameNum): all NumInstances slots flagged ready.
ReadyForFrame(s, frameNum) ==
    \A i \in 0..(NumInstances[s] - 1) : <<i, frameNum % INPUT_BUF_SIZE>> \in InputReady[s]

\* ------------------------------------------------------------------------
\* NetplaySession operations
\* ------------------------------------------------------------------------
SessionInit(s, localPlayerID, numPlayers, inputDelay) ==
    /\ ~(numPlayers < 2 \/ numPlayers > kNetplayMaxPlayers)
    /\ ~(localPlayerID < 0 \/ localPlayerID >= numPlayers)
    /\ LocalPlayerID' = [LocalPlayerID EXCEPT ![s] = localPlayerID]
    /\ NumInstances' = [NumInstances EXCEPT ![s] = numPlayers]
    /\ InputDelay' = [InputDelay EXCEPT ![s] = inputDelay]
    /\ CurrentFrame' = [CurrentFrame EXCEPT ![s] = 0]
    /\ HostMode' = [HostMode EXCEPT ![s] = (localPlayerID = 0)]
    /\ InputBuf' = [InputBuf EXCEPT ![s] = PrefillBuf(numPlayers, inputDelay)]
    /\ InputReady' = [InputReady EXCEPT ![s] = PrefillCells(numPlayers, inputDelay)]
    /\ Active' = [Active EXCEPT ![s] = TRUE]
    /\ UNCHANGED <<LastStateHash, LastHashFrame, TransportConnected, ctrlChan,
                   Applied, StateHashAt, AlertsHandled, DesyncFired>>
    /\ UNCHANGED <<threadVars, blobVars, lanVars, rxVars, endVars, discVars, lockVars, tpVars>>

SetLocalInput(s, input) ==
    LET frameNum == CurrentFrame[s] + InputDelay[s]   \* u32; the bounds stay far below 2^32
        delayed == [input EXCEPT !.FrameNum = frameNum]
        bufIdx == frameNum % INPUT_BUF_SIZE
    IN /\ InputBuf' = [InputBuf EXCEPT ![s] = WriteCell(@, LocalPlayerID[s], bufIdx, delayed)]
       /\ InputReady' = [InputReady EXCEPT ![s] = @ \cup {<<LocalPlayerID[s], bufIdx>>}]
       /\ UNCHANGED <<Active, NumInstances, LocalPlayerID, InputDelay, CurrentFrame,
                      HostMode, LastStateHash, LastHashFrame, TransportConnected, ctrlChan,
                      Applied, StateHashAt, AlertsHandled, DesyncFired>>
       /\ UNCHANGED <<threadVars, blobVars, lanVars, rxVars, endVars, discVars, lockVars, tpVars>>

SetRemoteInput(s, playerID, input) ==
    IF playerID < 0 \/ playerID >= NumInstances[s]
    THEN UNCHANGED <<InputBuf, InputReady>>
    ELSE LET bufIdx == input.FrameNum % INPUT_BUF_SIZE
         IN /\ InputBuf' = [InputBuf EXCEPT ![s] = WriteCell(@, playerID, bufIdx, input)]
            /\ InputReady' = [InputReady EXCEPT ![s] = @ \cup {<<playerID, bufIdx>>}]

\* HandleInputMessage, Msg_InputFrame: the sender's role picks the player.
HandleInputMessage(s, peerIdx, input) ==
    /\ LET playerID == IF HostMode[s] THEN peerIdx + 1 ELSE 0
       IN SetRemoteInput(s, playerID, input)
    /\ UNCHANGED <<Active, NumInstances, LocalPlayerID, InputDelay, CurrentFrame,
                   HostMode, LastStateHash, LastHashFrame, TransportConnected, ctrlChan,
                   Applied, StateHashAt, AlertsHandled, DesyncFired>>
    /\ UNCHANGED <<threadVars, blobVars, lanVars, rxVars, endVars, discVars, lockVars, tpVars>>

\* ApplyInputs(frame): what every instance is fed, and the flags it clears.
AppliedBy(s, frame) ==
    LET bufIdx == frame % INPUT_BUF_SIZE
    IN [frame |-> frame, n |-> NumInstances[s],
        inputs |-> [i \in 0..(NumInstances[s] - 1) |-> Cell(InputBuf[s], i, bufIdx)],
        ready |-> [i \in 0..(NumInstances[s] - 1) |-> <<i, bufIdx>> \in InputReady[s]]]

ApplyInputsClears(s, frame) ==
    {<<i, frame % INPUT_BUF_SIZE>> : i \in 0..(NumInstances[s] - 1)}

\* State hashes the emulator instances can produce (ComputeStateHash).
HashVals == {0, 1}

IsCheckpoint(frame) == frame > 0 /\ (frame % DESYNC_CHECK_INTERVAL) = 0

\* Transport.Broadcast on the control channel: to the connected peer session.
BroadcastControl(s, msg) ==
    [d \in Sessions |-> IF d # s /\ TransportConnected[s] /\ TransportConnected[d]
                        THEN Append(ctrlChan[d], msg) ELSE ctrlChan[d]]

\* RunFrame, first part: ApplyInputs(CurrentFrame).
RunFrameApply(s) ==
    /\ Applied' = [Applied EXCEPT ![s] = AppliedBy(s, CurrentFrame[s])]
    /\ InputReady' = [InputReady EXCEPT ![s] = @ \ ApplyInputsClears(s, CurrentFrame[s])]

\* RunFrame, last part: desync check every DESYNC_CHECK_INTERVAL frames,
\* then CurrentFrame++ (u32; the bounds stay far below 2^32).
RunFrameFinish(s) ==
    /\ IF IsCheckpoint(CurrentFrame[s])
       THEN \E hash \in HashVals :
              /\ ctrlChan' = IF TransportConnected[s]
                             THEN BroadcastControl(s, [Type |-> "DesyncAlert",
                                                       Frame |-> CurrentFrame[s], Hash |-> hash])
                             ELSE ctrlChan
              /\ LastStateHash' = [LastStateHash EXCEPT ![s] = hash]
              /\ LastHashFrame' = [LastHashFrame EXCEPT ![s] = CurrentFrame[s]]
              /\ StateHashAt' = [StateHashAt EXCEPT ![s] =
                                   [f \in (DOMAIN @) \cup {CurrentFrame[s]} |->
                                       IF f = CurrentFrame[s] THEN hash ELSE @[f]]]
       ELSE UNCHANGED <<ctrlChan, LastStateHash, LastHashFrame, StateHashAt>>
    /\ CurrentFrame' = [CurrentFrame EXCEPT ![s] = @ + 1]

\* RunFrame as one step: ApplyInputs, one frame on every instance (the
\* barrier rounds in between are taken step by step in SpecThreads), desync
\* check, CurrentFrame++.
RunFrame(s, cap) ==
    /\ ~(~Active[s] \/ NumInstances[s] = 0)
    /\ CurrentFrame[s] < cap
    /\ RunFrameApply(s)
    /\ RunFrameFinish(s)
    /\ UNCHANGED <<Active, NumInstances, LocalPlayerID, InputDelay, HostMode, InputBuf,
                   TransportConnected, AlertsHandled, DesyncFired>>
    /\ UNCHANGED <<threadVars, blobVars, lanVars, rxVars, endVars, discVars, lockVars, tpVars>>

\* HandleControlMessage, Msg_DesyncAlert.
HandleDesyncAlert(s) ==
    /\ ctrlChan[s] # <<>>
    /\ Head(ctrlChan[s]).Type = "DesyncAlert"
    /\ LET msg == Head(ctrlChan[s])
       IN /\ DesyncFired' = [DesyncFired EXCEPT ![s] =
                IF msg.Frame = LastHashFrame[s] /\ msg.Hash # LastStateHash[s]
                THEN @ \cup {msg.Frame} ELSE @]
          /\ AlertsHandled' = [AlertsHandled EXCEPT ![s] = @ \cup {<<msg.Frame, msg.Hash>>}]
    /\ ctrlChan' = [ctrlChan EXCEPT ![s] = Tail(@)]
    /\ UNCHANGED <<Active, NumInstances, LocalPlayerID, InputDelay, CurrentFrame,
                   HostMode, InputBuf, InputReady, LastStateHash, LastHashFrame,
                   TransportConnected, Applied, StateHashAt>>
    /\ UNCHANGED <<threadVars, blobVars, lanVars, rxVars, endVars, discVars, lockVars, tpVars>>

\* HandleControlMessage, Msg_StartGame (len >= sizeof(MsgStartGame)):
\* CurrentFrame = msg->Frame; InputDelay = msg->InputDelay
HandleStartGame(s, frame, inputDelay) ==
    /\ CurrentFrame' = [CurrentFrame EXCEPT ![s] = frame]
    /\ InputDelay' = [InputDelay EXCEPT ![s] = inputDelay]
    /\ UNCHANGED <<Active, NumInstances, LocalPlayerID, HostMode, InputBuf, InputReady,
                   LastStateHash, LastHashFrame, TransportConnected, ctrlChan,
                   Applied, StateHashAt, AlertsHandled, DesyncFired>>
    /\ UNCHANGED <<threadVars, blobVars, lanVars, rxVars, endVars, discVars, lockVars, tpVars>>

\* HostStart on session 0 and ClientConnect on session 1: both transports
\* report IsConnected afterwards.
TransportConnect ==
    /\ ~TransportConnected[0] /\ ~TransportConnected[1]
    /\ TransportConnected' = [s \in Sessions |-> TRUE]
    /\ HostMode' = [s \in Sessions |-> s = 0]
    /\ UNCHANGED <<Active, NumInstances, LocalPlayerID, InputDelay, CurrentFrame,
                   InputBuf, InputReady, LastStateHash, LastHashFrame, ctrlChan,
                   Applied, StateHashAt, AlertsHandled, DesyncFired>>
    /\ UNCHANGED <<threadVars, blobVars, lanVars, rxVars, endVars, discVars, lockVars, tpVars>>

\* ------------------------------------------------------------------------
\* Instance threads and SimpleBarrier (session 0)
\* ------------------------------------------------------------------------
NoBarrier == [Threshold |-> 0, Count |-> 0, Generation |-> 0]

Workers == 0..(kNetplayMaxPlayers - 1)

LiveWorkers == 0..(NumInstances[0] - 1)

\* A barrier that opens one arrival early (Threshold - 1 participants).
ArrivesLastButOne(b) == b.Count - 1 <= 1

\* SimpleBarrier::arrive_and_wait up to the point where the caller either
\* returns or starts waiting: TRUE iff the caller was the last to arrive.
ArrivesLast(b) == b.Count - 1 = 0

BarrierAfterArrive(b) ==
    IF ArrivesLast(b)
    THEN [b EXCEPT !.Generation = @ + 1, !.Count = b.Threshold]
    ELSE [b EXCEPT !.Count = @ - 1]

\* Where a thread goes on leaving arrive_and_wait.
CtlAfterBarrier(pc) ==
    CASE pc \in {"go_arrive", "go_wait"} -> "done_arrive"
      [] pc \in {"done_arrive", "done_wait"} -> "frame_end"
      [] pc \in {"stop_arrive", "stop_wait"} -> "join"

CtlWaitPc(pc) ==
    CASE pc = "go_arrive" -> "go_wait"
      [] pc = "done_arrive" -> "done_wait"
      [] pc = "stop_arrive" -> "stop_wait"

WorkerAfterBarrier(pc) ==
    CASE pc \in {"go_arrive", "go_wait"} -> "check"
      [] pc \in {"done_arrive", "done_wait"} -> "loop"

WorkerWaitPc(pc) ==
    CASE pc = "go_arrive" -> "go_wait"
      [] pc = "done_arrive" -> "done_wait"

\* RunFrame up to the first barrier: ApplyInputs, then StartThreads if the
\* threads are not running (barrier of NumInstances + 1, one thread per instance).
CtlRunFrameBegin(cap) ==
    /\ ctlPc = "idle"
    /\ ~(~Active[0] \/ NumInstances[0] = 0)
    /\ CurrentFrame[0] < cap
    /\ RunFrameApply(0)
    /\ IF ~ThreadsRunning
       THEN /\ ThreadsRunning' = TRUE
            /\ FrameBarrier' = [Threshold |-> NumInstances[0] + 1,
                                Count |-> NumInstances[0] + 1, Generation |-> 0]
            /\ wPc' = [w \in Workers |-> IF w \in LiveWorkers THEN "loop" ELSE "none"]
       ELSE UNCHANGED <<ThreadsRunning, FrameBarrier, wPc>>
    /\ InstFrames' = [w \in Workers |-> 0]
    /\ ctlPc' = "go_arrive"
    /\ UNCHANGED <<ctlGen, wGen>>
    /\ UNCHANGED <<Active, NumInstances, LocalPlayerID, InputDelay, CurrentFrame,
                   HostMode, InputBuf, LastStateHash, LastHashFrame, TransportConnected,
                   ctrlChan, StateHashAt, AlertsHandled, DesyncFired>>
    /\ UNCHANGED <<blobVars, lanVars, rxVars, endVars, discVars, lockVars, tpVars>>

\* The controller's arrive_and_wait (RunFrame's two, StopThreads' one).
CtlArrive ==
    /\ ctlPc \in {"go_arrive", "done_arrive", "stop_arrive"}
    /\ ctlGen' = FrameBarrier.Generation
    /\ FrameBarrier' = BarrierAfterArrive(FrameBarrier)
    /\ ctlPc' = IF ArrivesLast(FrameBarrier) THEN CtlAfterBarrier(ctlPc) ELSE CtlWaitPc(ctlPc)
    /\ UNCHANGED <<ThreadsRunning, wPc, wGen, InstFrames>>
    /\ UNCHANGED <<engineVars, blobVars, lanVars, rxVars, endVars, discVars, lockVars, tpVars>>

\* Cv.wait returns once gen != Generation.
CtlWake ==
    /\ ctlPc \in {"go_wait", "done_wait", "stop_wait"}
    /\ ctlGen # FrameBarrier.Generation
    /\ ctlPc' = CtlAfterBarrier(ctlPc)
    /\ UNCHANGED <<ThreadsRunning, FrameBarrier, ctlGen, wPc, wGen, InstFrames>>
    /\ UNCHANGED <<engineVars, blobVars, lanVars, rxVars, endVars, discVars, lockVars, tpVars>>

\* RunFrame after the second barrier: desync check, CurrentFrame++, return.
CtlRunFrameEnd ==
    /\ ctlPc = "frame_end"
    /\ RunFrameFinish(0)
    /\ ctlPc' = "idle"
    /\ UNCHANGED <<ThreadsRunning, FrameBarrier, ctlGen, wPc, wGen, InstFrames>>
    /\ UNCHANGED <<Active, NumInstances, LocalPlayerID, InputDelay, HostMode, InputBuf,
                   InputReady, TransportConnected, Applied, AlertsHandled, DesyncFired>>
    /\ UNCHANGED <<blobVars, lanVars, rxVars, endVars, discVars, lockVars, tpVars>>

\* The tail of DeInit after StopThreads: Active, Transport.Stop, NumInstances.
DeInitTail ==
    /\ Active' = [Active EXCEPT ![0] = FALSE]
    /\ TransportConnected' = [TransportConnected EXCEPT ![0] = FALSE]
    /\ NumInstances' = [NumInstances EXCEPT ![0] = 0]
    /\ UNCHANGED <<LocalPlayerID, InputDelay, CurrentFrame, HostMode, InputBuf, InputReady,
                   LastStateHash, LastHashFrame, ctrlChan, Applied, StateHashAt,
                   AlertsHandled, DesyncFired>>
    /\ UNCHANGED <<blobVars, lanVars, rxVars, endVars, discVars, lockVars, tpVars>>

\* DeInit -> StopThreads: returns at once if no threads run, otherwise
\* clears ThreadsRunning and goes on to arrive at the barrier.
CtlStopThreads ==
    /\ ctlPc = "idle"
    /\ Active[0]
    /\ IF ~ThreadsRunning
       THEN /\ DeInitTail
            /\ UNCHANGED <<threadVars, blobVars, lanVars, rxVars, endVars, discVars, lockVars, tpVars>>
       ELSE /\ ThreadsRunning' = FALSE
            /\ ctlPc' = "stop_arrive"
            /\ UNCHANGED <<FrameBarrier, ctlGen, wPc, wGen, InstFrames>>
            /\ UNCHANGED <<engineVars, blobVars, lanVars, rxVars, endVars, discVars, lockVars, tpVars>>

\* StopThreads after its barrier: join every instance thread, drop the
\* barrier, and finish DeInit.
CtlJoin ==
    /\ ctlPc = "join"
    /\ \A w \in LiveWorkers : wPc[w] = "exited"
    /\ FrameBarrier' = NoBarrier
    /\ wPc' = [w \in Workers |-> "none"]
    /\ ctlPc' = "idle"
    /\ DeInitTail
    /\ UNCHANGED <<ThreadsRunning, ctlGen, wGen, InstFrames>>

\* InstanceThreadFunc: while (ThreadsRunning)
WorkerLoopTest(w) ==
    /\ wPc[w] = "loop"
    /\ wPc' = [wPc EXCEPT ![w] = IF ThreadsRunning THEN "go_arrive" ELSE "exited"]
    /\ UNCHANGED <<ThreadsRunning, FrameBarrier, ctlPc, ctlGen, wGen, InstFrames>>
    /\ UNCHANGED <<engineVars, blobVars, lanVars, rxVars, endVars, discVars, lockVars, tpVars>>

\* InstanceThreadFunc: FrameBarrier->arrive_and_wait() (both of them)
WorkerArrive(w) ==
    /\ wPc[w] \in {"go_arrive", "done_arrive"}
    /\ wGen' = [wGen EXCEPT ![w] = FrameBarrier.Generation]
    /\ FrameBarrier' = BarrierAfterArrive(FrameBarrier)
    /\ wPc' = [wPc EXCEPT ![w] = IF ArrivesLast(FrameBarrier)
                                 THEN WorkerAfterBarrier(wPc[w]) ELSE WorkerWaitPc(wPc[w])]
    /\ UNCHANGED <<ThreadsRunning, ctlPc, ctlGen, InstFrames>>
    /\ UNCHANGED <<engineVars, blobVars, lanVars, rxVars, endVars, discVars, lockVars, tpVars>>

WorkerWake(w) ==
    /\ wPc[w] \in {"go_wait", "done_wait"}
    /\ wGen[w] # FrameBarrier.Generation
    /\ wPc' = [wPc EXCEPT ![w] = WorkerAfterBarrier(wPc[w])]
    /\ UNCHANGED <<ThreadsRunning, FrameBarrier, ctlPc, ctlGen, wGen, InstFrames>>
    /\ UNCHANGED <<engineVars, blobVars, lanVars, rxVars, endVars, discVars, lockVars, tpVars>>

\* InstanceThreadFunc: if (!ThreadsRunning) break; else the thread enters
\* Instances[instIdx]->RunFrame() for its own instance.
WorkerRun(w) ==
    /\ wPc[w] = "check"
    /\ wPc' = [wPc EXCEPT ![w] = IF ~ThreadsRunning THEN "exited" ELSE "run"]
    /\ UNCHANGED <<ThreadsRunning, FrameBarrier, ctlPc, ctlGen, wGen, InstFrames>>
    /\ UNCHANGED <<engineVars, blobVars, lanVars, rxVars, endVars, discVars, lockVars, tpVars>>

\* InstanceThreadFunc: Instances[instIdx]->RunFrame() returns and its result
\* is stored in InstanceScanlines[instIdx]; InstFrames counts the frames the
\* instance has run since the controller entered RunFrame.
WorkerRunFrameReturns(w) ==
    /\ wPc[w] = "run"
    /\ wPc' = [wPc EXCEPT ![w] = "done_arrive"]
    /\ InstFrames' = [InstFrames EXCEPT ![w] = @ + 1]
    /\ UNCHANGED <<ThreadsRunning, FrameBarrier, ctlPc, ctlGen, wGen>>
    /\ UNCHANGED <<engineVars, blobVars, lanVars, rxVars, endVars, discVars, lockVars, tpVars>>

ThreadInit ==
    /\ ThreadsRunning = FALSE
    /\ FrameBarrier = NoBarrier
    /\ ctlPc = "idle"
    /\ ctlGen = 0
    /\ wPc = [w \in Workers |-> "none"]
    /\ wGen = [w \in Workers |-> 0]
    /\ InstFrames = [w \in Workers |-> 0]

\* ------------------------------------------------------------------------
\* BlobTransfer
\* ------------------------------------------------------------------------
Bytes == {0, 1}

RECURSIVE SumBytes(_)
SumBytes(q) == IF q = <<>> THEN 0 ELSE Head(q) + SumBytes(Tail(q))

\* u32 values are written as their 32-bit two's-complement integers
\* (0xFFFFFFFF is -1), so that + is u32 addition here and UGt is u32 '>'.
UGt(a, b) == IF (a < 0) = (b < 0) THEN a > b ELSE a < 0

BlobDatas == UNION {[1..n -> Bytes] : n \in 1..MaxBlobLen}

SramDatas == {<<>>, <<1>>}

\* A BlobTransfer as constructed, and after Reset().  Written and OutOfBounds
\* are observations: how often each byte was written since the last
\* BlobStart (capped at 2), and whether a memcpy went outside the buffer.
FreshBlob == [Type |-> Blob_SRAM, TotalLen |-> 0, ReceivedLen |-> 0, Buffer |-> <<>>,
              Complete |-> FALSE, Receiving |-> FALSE, Written |-> <<>>, OutOfBounds |-> FALSE]

\* BlobTransfer::Send: BlobStart, the chunks, BlobEnd.
RECURSIVE ChunksFrom(_, _)
ChunksFrom(data, offset) ==
    IF offset < Len(data)
    THEN LET chunkLen == Min(ChunkSize, Len(data) - offset)
         IN <<[Type |-> "BlobChunk", Offset |-> offset,
               Data |-> SubSeq(data, offset + 1, offset + chunkLen)]>>
            \o ChunksFrom(data, offset + chunkLen)
    ELSE <<>>

BlobSend(type, data) ==
    <<[Type |-> "BlobStart", BlobType |-> type, TotalLen |-> Len(data)]>>
    \o ChunksFrom(data, 0)
    \o <<[Type |-> "BlobEnd", BlobType |-> type, Checksum |-> SumBytes(data)]>>

\* memcpy(Buffer.data() + offset, payload, chunkLen)
CopyInto(buf, offset, payload) ==
    [i \in 1..Len(buf) |-> IF i > offset /\ i <= offset + Len(payload)
                           THEN payload[i - offset] ELSE buf[i]]

CountInto(written, offset, chunkLen) ==
    [i \in 1..Len(written) |-> IF i > offset /\ i <= offset + chunkLen
                               THEN Min(written[i] + 1, 2) ELSE written[i]]

\* BlobTransfer::OnMessage: the receiver afterwards and the value returned.
BlobOnMessage(r, msg) ==
    CASE msg.Type = "BlobStart" ->
            [recv |-> [Type |-> msg.BlobType, TotalLen |-> msg.TotalLen, ReceivedLen |-> 0,
                       Buffer |-> [i \in 1..msg.TotalLen |-> 0],
                       Complete |-> FALSE, Receiving |-> TRUE,
                       Written |-> [i \in 1..msg.TotalLen |-> 0], OutOfBounds |-> FALSE],
             ret |-> FALSE]
      [] msg.Type = "BlobChunk" ->
            IF ~r.Receiving THEN [recv |-> r, ret |-> FALSE]
            ELSE LET chunkLen == Len(msg.Data)
                     offset == msg.Offset
                 IN IF UGt(offset + chunkLen, r.TotalLen)
                    THEN [recv |-> r, ret |-> FALSE]
                    ELSE [recv |-> [r EXCEPT
                                      !.Buffer = IF offset < 0 THEN @
                                                 ELSE CopyInto(@, offset, msg.Data),
                                      !.Written = IF offset < 0 THEN @
                                                  ELSE CountInto(@, offset, chunkLen),
                                      !.OutOfBounds = @ \/ (offset < 0 /\ chunkLen > 0),
                                      !.ReceivedLen = @ + chunkLen],
                          ret |-> FALSE]
      [] msg.Type = "BlobEnd" ->
            IF ~r.Receiving THEN [recv |-> r, ret |-> FALSE]
            ELSE IF SumBytes(r.Buffer) # msg.Checksum
                 THEN [recv |-> [r EXCEPT !.Receiving = FALSE], ret |-> FALSE]
                 ELSE [recv |-> [r EXCEPT !.Complete = TRUE, !.Receiving = FALSE], ret |-> TRUE]

BlobTypes == 0..(Blob_MAX - 1)

\* HandleControlMessage, Msg_BlobStart / Msg_BlobChunk / Msg_BlobEnd: the
\* message is offered to BlobRecv[0], BlobRecv[1], ... until one returns true.
OfferedTo(msg) ==
    {i \in BlobTypes : \A j \in 0..(i - 1) : ~BlobOnMessage(BlobRecv[j], msg).ret}

EveryByteOnce(r) == \A i \in 1..Len(r.Written) : r.Written[i] = 1

NoEndObs == [seen |-> FALSE, sumOK |-> FALSE, exact |-> FALSE, completed |-> FALSE]

HandleBlobMessage(msg) ==
    /\ BlobRecv' = [i \in BlobTypes |-> IF i \in OfferedTo(msg)
                                        THEN BlobOnMessage(BlobRecv[i], msg).recv
                                        ELSE BlobRecv[i]]
    /\ BlobEndObs' = [i \in BlobTypes |->
            IF msg.Type = "BlobEnd" /\ i \in OfferedTo(msg) /\ BlobRecv[i].Receiving
            THEN [seen |-> TRUE,
                  sumOK |-> SumBytes(BlobRecv[i].Buffer) = msg.Checksum,
                  exact |-> EveryByteOnce(BlobRecv[i]),
                  completed |-> BlobOnMessage(BlobRecv[i], msg).recv.Complete]
            ELSE BlobEndObs[i]]

\* HostSendStates(clientIdx): one blob per instance, then SRAM if there is any.
RECURSIVE StateBlobs(_, _, _)
StateBlobs(states, i, n) ==
    IF i < n THEN BlobSend(Blob_Savestate0 + i, states[i]) \o StateBlobs(states, i + 1, n)
    ELSE <<>>

HostSendStates(states, sram) ==
    /\ Active[0] /\ TransportConnected[0]
    /\ SentStates = <<>>
    /\ blobChan' = blobChan \o StateBlobs(states, 0, NumInstances[0])
                            \o (IF Len(sram) > 0 THEN BlobSend(Blob_SRAM, sram) ELSE <<>>)
    /\ SentStates' = states
    /\ UNCHANGED <<BlobRecv, LoadedStates, StatesLoaded, BlobEndObs, injected>>
    /\ UNCHANGED <<engineVars, threadVars, lanVars, rxVars, endVars, discVars, lockVars, tpVars>>

\* ProcessNetwork on the client: the next control message, in send order.
ClientHandleBlobMessage ==
    /\ Active[1]
    /\ blobChan # <<>>
    /\ HandleBlobMessage(Head(blobChan))
    /\ blobChan' = Tail(blobChan)
    /\ UNCHANGED <<SentStates, LoadedStates, StatesLoaded, injected>>
    /\ UNCHANGED <<engineVars, threadVars, lanVars, rxVars, endVars, discVars, lockVars, tpVars>>

\* A blob message reaching the client outside the sender's protocol
\* (reordered, repeated or forged).
ClientHandleInjected(msg) ==
    /\ Active[1]
    /\ injected < MaxInject
    /\ injected' = injected + 1
    /\ HandleBlobMessage(msg)
    /\ UNCHANGED <<blobChan, SentStates, LoadedStates, StatesLoaded>>
    /\ UNCHANGED <<engineVars, threadVars, lanVars, rxVars, endVars, discVars, lockVars, tpVars>>

SavestateSlots(n) == {Blob_Savestate0 + i : i \in {j \in 0..(n - 1) : Blob_Savestate0 + j < Blob_MAX}}

\* ClientReceiveStates, polled: false until every savestate blob is complete;
\* then loads them in order (LoadState of instance failAt fails, if failAt < n).
ClientReceiveStates(failAt) ==
    /\ Active[1]
    /\ LET n == NumInstances[1]
       IN IF \E b \in SavestateSlots(n) : ~BlobRecv[b].Complete
          THEN UNCHANGED <<BlobRecv, LoadedStates, StatesLoaded>>
          ELSE /\ BlobRecv' = [b \in BlobTypes |->
                     IF b \in SavestateSlots(n) /\ b - Blob_Savestate0 < failAt THEN FreshBlob
                     ELSE IF b = Blob_SRAM /\ failAt >= n /\ BlobRecv[b].Complete THEN FreshBlob
                     ELSE BlobRecv[b]]
               /\ LoadedStates' = [i \in 0..(Min(failAt, n) - 1) |->
                                      BlobRecv[Blob_Savestate0 + i].Buffer]
               /\ StatesLoaded' = (StatesLoaded \/ failAt >= n)
    /\ UNCHANGED <<blobChan, SentStates, BlobEndObs, injected>>
    /\ UNCHANGED <<engineVars, threadVars, lanVars, rxVars, endVars, discVars, lockVars, tpVars>>

BlobInit ==
    /\ BlobRecv = [b \in BlobTypes |-> FreshBlob]
    /\ blobChan = <<>>
    /\ SentStates = <<>>
    /\ LoadedStates = <<>>
    /\ StatesLoaded = FALSE
    /\ BlobEndObs = [b \in BlobTypes |-> NoEndObs]
    /\ injected = 0

\* ------------------------------------------------------------------------
\* LAN
\* ------------------------------------------------------------------------
\* Machine 0 is the one that hosts; the others join as clients.  All are on
\* different addresses.  A client's ENet host is created without a listening
\* address (StartClient), so the only connections are client -> host.
HostMachine == 0

ClientMachines == {1, 2}

Machines == {HostMachine} \cup ClientMachines

MachineAddress(m) == m + 1

PlayerSlots == 0..15

NullPeer == -1

\* The peers of the host's ENet host that connections can occupy
EnetPeers == 0 .. (Cardinality(ClientMachines) - 1)

ZeroPlayer == [ID |-> 0, Status |-> "None", Address |-> 0]

ZeroTable == [i \in PlayerSlots |-> ZeroPlayer]

\* ENet events and the command packets they carry
EvConnect == [type |-> "CONNECT"]

EvDisconnect == [type |-> "DISCONNECT"]

EvCmd(body) == [type |-> "RECEIVE", chan |-> "Cmd", body |-> body]

CmdClientInit(valid, id, maxPlayers) ==
    [cmd |-> "ClientInit", valid |-> valid, id |-> id, maxPlayers |-> maxPlayers]

CmdPlayerInfo(valid, player) == [cmd |-> "PlayerInfo", valid |-> valid, player |-> player]

CmdPlayerList(numPlayers, players) ==
    [cmd |-> "PlayerList", numPlayers |-> numPlayers, players |-> players]

CmdPlayerConnect == [cmd |-> "PlayerConnect"]

CmdPlayerDisconnect == [cmd |-> "PlayerDisconnect"]

\* Host != nullptr
HasEnetHost(m) == LanActive[m] \/ (m \in ClientMachines /\ connPhase[m] # "idle")

\* LAN::LAN
LanInit ==
    /\ LanActive = [m \in Machines |-> FALSE]
    /\ IsHost = [m \in Machines |-> FALSE]
    /\ Players = [m \in Machines |-> ZeroTable]
    /\ NumPlayers = [m \in Machines |-> 0]
    /\ MaxPlayers = [m \in Machines |-> 0]
    /\ MyPlayer = [m \in Machines |-> [ID |-> 0, Status |-> "None"]]
    /\ HostAddress = [m \in Machines |-> 0]
    /\ ConnectedBitmask = [m \in Machines |-> {}]
    /\ RemotePeers = [m \in Machines |-> [i \in PlayerSlots |-> NullPeer]]
    /\ RXQueue = [m \in Machines |-> <<>>]
    /\ connPhase = [c \in ClientMachines |-> "idle"]
    /\ hostPeer = [c \in ClientMachines |-> "none"]
    /\ peerData = [p \in EnetPeers |-> NullPeer]
    /\ peerOf = [c \in ClientMachines |-> NullPeer]
    /\ clientPeerUp = [c \in ClientMachines |-> FALSE]
    /\ toHost = [c \in ClientMachines |-> <<>>]
    /\ toClient = [c \in ClientMachines |-> <<>>]
    /\ lanSessions = 0
    /\ forged = FALSE
    /\ toggles = 0
    /\ lastRecv = [m \in Machines |-> <<>>]
    /\ LastHostID = [m \in Machines |-> -1]
    /\ LastHostPeer = [m \in Machines |-> NullPeer]
    /\ mpCount = 0
    /\ cleanJoin = TRUE
    /\ ownIdArrived = FALSE

\* Appending an event to the queues of the clients in targets
Deliver(q, targets, ev) ==
    [c \in ClientMachines |-> IF c \in targets THEN Append(q[c], ev) ELSE q[c]]

\* The host-side peer of c still owes the host a DISCONNECT event
HostPeerOpen(c) == hostPeer[c] \in {"pending", "up"}

\* LAN::StartHost
StartHost(numplayers) ==
    /\ ~HasEnetHost(HostMachine)
    /\ lanSessions < MaxLanSessions
    /\ numplayers <= 16
    /\ Players' = [Players EXCEPT ![HostMachine][0] =
                      [ID |-> 0, Status |-> "Host", Address |-> kLocalhost]]
    /\ NumPlayers' = [NumPlayers EXCEPT ![HostMachine] = 1]
    /\ MaxPlayers' = [MaxPlayers EXCEPT ![HostMachine] = numplayers]
    /\ MyPlayer' = [MyPlayer EXCEPT ![HostMachine] = [ID |-> 0, Status |-> "Host"]]
    /\ HostAddress' = [HostAddress EXCEPT ![HostMachine] = kLocalhost]
    /\ LanActive' = [LanActive EXCEPT ![HostMachine] = TRUE]
    /\ IsHost' = [IsHost EXCEPT ![HostMachine] = TRUE]
    /\ LastHostID' = [LastHostID EXCEPT ![HostMachine] = -1]
    /\ LastHostPeer' = [LastHostPeer EXCEPT ![HostMachine] = NullPeer]
    /\ lanSessions' = lanSessions + 1
    /\ UNCHANGED <<ConnectedBitmask, RemotePeers, RXQueue, connPhase, hostPeer, peerData, peerOf,
                   clientPeerUp, toHost, toClient, forged, toggles, lastRecv, mpCount>>
    /\ cleanJoin' = TRUE
    /\ UNCHANGED <<engineVars, threadVars, blobVars, rxVars, endVars, discVars, lockVars, tpVars>>
    /\ UNCHANGED ownIdArrived

\* LAN::EndSession past if (!Active) return.  The disconnects it queues are never flushed before the
\* ENet host is destroyed; the other side learns of it by a DISCONNECT event.
EndSessionBody(m) ==
    /\ LanActive' = [LanActive EXCEPT ![m] = FALSE]
    /\ IsHost' = [IsHost EXCEPT ![m] = FALSE]
    /\ RXQueue' = [RXQueue EXCEPT ![m] = <<>>]
    /\ RemotePeers' = [RemotePeers EXCEPT ![m] =
                          [i \in PlayerSlots |-> IF i = MyPlayer[m].ID THEN @[i] ELSE NullPeer]]
    /\ IF m = HostMachine
       THEN /\ toClient' = Deliver(toClient,
                                   {c \in ClientMachines : clientPeerUp[c] /\ HostPeerOpen(c)},
                                   EvDisconnect)
            /\ hostPeer' = [c \in ClientMachines |-> "none"]
            /\ peerData' = [p \in EnetPeers |-> NullPeer]
            /\ peerOf' = [c \in ClientMachines |-> NullPeer]
            /\ toHost' = [c \in ClientMachines |-> <<>>]
            /\ UNCHANGED clientPeerUp
       ELSE /\ toHost' = [toHost EXCEPT ![m] =
                             IF clientPeerUp[m] /\ HostPeerOpen(m)
                             THEN Append(@, EvDisconnect) ELSE @]
            /\ toClient' = [toClient EXCEPT ![m] = <<>>]
            /\ clientPeerUp' = [clientPeerUp EXCEPT ![m] = FALSE]
            /\ UNCHANGED <<hostPeer, peerData, peerOf>>
    /\ UNCHANGED <<Players, NumPlayers, MaxPlayers, MyPlayer, HostAddress, ConnectedBitmask,
                   connPhase, lanSessions, forged, toggles, lastRecv, mpCount, LastHostID, LastHostPeer>>
    /\ cleanJoin' = (cleanJoin /\ m = HostMachine)
    /\ UNCHANGED <<engineVars, threadVars, blobVars, rxVars, discVars, lockVars, tpVars>>
    /\ UNCHANGED ownIdArrived

EndSessionAlways(m) == FALSE

\* LAN::EndSession: if (!Active) return
EndSessionReturnsEarly(m) == ~LanActive[m]

\* LAN::EndSession on an active session
EndSession(m) ==
    /\ ~EndSessionReturnsEarly(m)
    /\ EndSessionBody(m)
    /\ UNCHANGED endVars

NoEndLog == [calls |-> 0, ran |-> 0]

EndInit == endLog = [m \in Machines |-> NoEndLog]

\* LAN::EndSession, whatever the state of the session (the destructor and
\* the dialogs call it unconditionally)
EndSessionCall(m) ==
    /\ endLog[m].calls < MaxEndCalls
    /\ IF EndSessionReturnsEarly(m)
       THEN /\ endLog' = [endLog EXCEPT ![m].calls = @ + 1]
            /\ UNCHANGED <<engineVars, threadVars, blobVars, lanVars, rxVars, discVars, lockVars, tpVars>>
       ELSE /\ endLog' = [endLog EXCEPT ![m] = [calls |-> @.calls + 1, ran |-> @.ran + 1]]
            /\ EndSessionBody(m)

\* The peer the host's ENet gives to an incoming connection: the first of
\* its peers that is not in use.  A peer's data is set to NULL when the ENet
\* host is created and is otherwise only written by the program.
FirstFreePeer ==
    LET free == EnetPeers \ {peerOf[c] : c \in {d \in ClientMachines : hostPeer[d] # "none"}}
    IN CHOOSE p \in free : \A q \in free : p <= q

\* LAN::StartClient up to its handshake loop: enet_host_create,
\* enet_host_connect, MyPlayer reset.  A new connection is made only once
\* the host has seen the end of this machine's previous one.
StartClientConnect(c) ==
    /\ ~HasEnetHost(c)
    /\ lanSessions < MaxLanSessions
    /\ hostPeer[c] = "none" /\ toHost[c] = <<>>
    /\ MyPlayer' = [MyPlayer EXCEPT ![c] = [ID |-> 0, Status |-> "Connecting"]]
    /\ connPhase' = [connPhase EXCEPT ![c] = "conn0"]
    /\ clientPeerUp' = [clientPeerUp EXCEPT ![c] = TRUE]
    /\ lanSessions' = lanSessions + 1
    /\ IF LanActive[HostMachine]
       THEN /\ hostPeer' = [hostPeer EXCEPT ![c] = "pending"]
            /\ peerOf' = [peerOf EXCEPT ![c] = FirstFreePeer]
            /\ toHost' = [toHost EXCEPT ![c] = <<EvConnect>>]
            /\ toClient' = [toClient EXCEPT ![c] = <<EvConnect>>]
       ELSE /\ toClient' = [toClient EXCEPT ![c] = <<>>]
            /\ UNCHANGED <<hostPeer, peerOf, toHost>>
    /\ UNCHANGED <<LanActive, IsHost, Players, NumPlayers, MaxPlayers, HostAddress,
                   ConnectedBitmask, RemotePeers, RXQueue, peerData, forged, toggles, lastRecv, mpCount, LastHostID, LastHostPeer>>
    /\ UNCHANGED cleanJoin
    /\ UNCHANGED <<engineVars, threadVars, blobVars, rxVars, endVars, discVars, lockVars, tpVars>>
    /\ UNCHANGED ownIdArrived

\* StartClient, conn != 2: enet_peer_reset, enet_host_destroy, return false
StartClientFail(c) ==
    /\ connPhase' = [connPhase EXCEPT ![c] = "idle"]
    /\ clientPeerUp' = [clientPeerUp EXCEPT ![c] = FALSE]
    /\ toClient' = [toClient EXCEPT ![c] = <<>>]
    /\ toHost' = [toHost EXCEPT ![c] =
                     IF clientPeerUp[c] /\ HostPeerOpen(c) THEN Append(@, EvDisconnect) ELSE @]
    /\ UNCHANGED <<LanActive, IsHost, MaxPlayers, MyPlayer, HostAddress, RemotePeers,
                   LastHostID, LastHostPeer>>

\* StartClient accepts this packet as its ClientInit
ClientInitAccepted(ev) ==
    /\ ev.chan = "Cmd"
    /\ ev.body.cmd = "ClientInit"
    /\ ev.body.valid
    /\ ev.body.maxPlayers <= 16

\* StartClient, conn = 2: store id and MaxPlayers, send PlayerInfo, go active
StartClientFinish(c, body) ==
    /\ MaxPlayers' = [MaxPlayers EXCEPT ![c] = body.maxPlayers]
    /\ MyPlayer' = [MyPlayer EXCEPT ![c].ID = body.id]
    /\ toHost' = [toHost EXCEPT ![c] =
                     IF hostPeer[c] = "up"
                     THEN Append(@, EvCmd(CmdPlayerInfo(TRUE,
                               [ID |-> body.id, Status |-> MyPlayer[c].Status, Address |-> 0])))
                     ELSE @]
    /\ toClient' = [toClient EXCEPT ![c] = Tail(@)]
    /\ HostAddress' = [HostAddress EXCEPT ![c] = MachineAddress(HostMachine)]
    /\ LastHostID' = [LastHostID EXCEPT ![c] = -1]
    /\ LastHostPeer' = [LastHostPeer EXCEPT ![c] = NullPeer]
    /\ RemotePeers' = [RemotePeers EXCEPT ![c][0] = HostMachine]
    /\ LanActive' = [LanActive EXCEPT ![c] = TRUE]
    /\ IsHost' = [IsHost EXCEPT ![c] = FALSE]
    /\ connPhase' = [connPhase EXCEPT ![c] = "idle"]
    /\ UNCHANGED clientPeerUp

\* One event returned by enet_host_service inside StartClient's loop
StartClientService(c) ==
    /\ connPhase[c] # "idle"
    /\ toClient[c] # <<>>
    /\ LET ev == Head(toClient[c])
       IN CASE connPhase[c] = "conn0" /\ ev.type = "CONNECT" ->
                    /\ connPhase' = [connPhase EXCEPT ![c] = "conn1"]
                    /\ toClient' = [toClient EXCEPT ![c] = Tail(@)]
                    /\ UNCHANGED <<LanActive, IsHost, MaxPlayers, MyPlayer, HostAddress,
                                   RemotePeers, clientPeerUp, toHost,
                                   LastHostID, LastHostPeer>>
            [] connPhase[c] = "conn1" /\ ev.type = "RECEIVE" ->
                    IF ClientInitAccepted(ev)
                    THEN StartClientFinish(c, ev.body)
                    ELSE /\ toClient' = [toClient EXCEPT ![c] = Tail(@)]
                         /\ UNCHANGED <<LanActive, IsHost, MaxPlayers, MyPlayer, HostAddress,
                                        RemotePeers, clientPeerUp, toHost, connPhase,
                                        LastHostID, LastHostPeer>>
            [] ev.type = "DISCONNECT" -> StartClientFail(c)
            [] OTHER ->
                    /\ toClient' = [toClient EXCEPT ![c] = Tail(@)]
                    /\ UNCHANGED <<LanActive, IsHost, MaxPlayers, MyPlayer, HostAddress,
                                   RemotePeers, clientPeerUp, toHost, connPhase,
                                        LastHostID, LastHostPeer>>
    /\ UNCHANGED <<Players, NumPlayers, ConnectedBitmask, RXQueue, hostPeer, peerData, peerOf,
                   lanSessions, forged, toggles, lastRecv, mpCount>>
    /\ cleanJoin' = (cleanJoin /\ Head(toClient[c]).type # "DISCONNECT")
    /\ UNCHANGED <<engineVars, threadVars, blobVars, rxVars, endVars, discVars, lockVars, tpVars>>
    /\ UNCHANGED ownIdArrived

\* StartClient's loop ends without an event: the 5 s are over
StartClientTimeout(c) ==
    /\ connPhase[c] # "idle"
    /\ StartClientFail(c)
    /\ UNCHANGED <<Players, NumPlayers, ConnectedBitmask, RXQueue, hostPeer, peerData, peerOf,
                   lanSessions, forged, toggles, lastRecv, mpCount>>
    /\ cleanJoin' = FALSE
    /\ UNCHANGED <<engineVars, threadVars, blobVars, rxVars, endVars, discVars, lockVars, tpVars>>
    /\ UNCHANGED ownIdArrived

\* LAN::HostUpdatePlayerList / enet_host_broadcast on the host: the packet
\* goes to every peer that is connected once the current event is handled.
HostBroadcast(q, hp, body) ==
    Deliver(q, {c \in ClientMachines : hp[c] = "up" /\ clientPeerUp[c]}, EvCmd(body))

\* enet_peer_disconnect(event.peer, 0) on the host: nothing more is received
\* from that peer, both sides get a DISCONNECT event.  The peer is
\* "rejected" when the game was full at its CONNECT, "closing" otherwise.
HostPeerDisconnect(c, state) ==
    /\ hostPeer' = [hostPeer EXCEPT ![c] = state]
    /\ toHost' = [toHost EXCEPT ![c] = <<EvDisconnect>>]
    /\ toClient' = Deliver(toClient, {x \in {c} : clientPeerUp[x]}, EvDisconnect)
    /\ UNCHANGED <<Players, NumPlayers, ConnectedBitmask, RemotePeers, RXQueue, peerData, peerOf>>

\* ProcessHostEvent, CONNECT: where the id loop stops
AssignedId ==
    CHOOSE id \in 0..16 :
        /\ \/ id = 16
           \/ id >= NumPlayers[HostMachine]
           \/ Players[HostMachine][id].Status = "None"
        /\ \A j \in 0..(id - 1) :
               j < NumPlayers[HostMachine] /\ Players[HostMachine][j].Status # "None"

HostFull == NumPlayers[HostMachine] >= MaxPlayers[HostMachine] \/ NumPlayers[HostMachine] >= 16

\* ProcessHostEvent, ENET_EVENT_TYPE_CONNECT
HostOnConnect(c, rest) ==
    IF HostFull \/ AssignedId >= 16
    THEN HostPeerDisconnect(c, IF HostFull THEN "rejected" ELSE "closing")
    ELSE LET id == AssignedId
         IN /\ toClient' = Deliver(toClient, {x \in {c} : clientPeerUp[x]},
                                   EvCmd(CmdClientInit(TRUE, id, MaxPlayers[HostMachine])))
            /\ Players' = [Players EXCEPT ![HostMachine][id] =
                              [ID |-> id, Status |-> "Connecting", Address |-> MachineAddress(c)]]
            /\ peerData' = [peerData EXCEPT ![peerOf[c]] = id]
            /\ NumPlayers' = [NumPlayers EXCEPT ![HostMachine] = @ + 1]
            /\ RemotePeers' = [RemotePeers EXCEPT ![HostMachine][id] = c]
            /\ hostPeer' = [hostPeer EXCEPT ![c] = "up"]
            /\ toHost' = [toHost EXCEPT ![c] = rest]
            /\ UNCHANGED <<ConnectedBitmask, RXQueue, peerOf>>

\* ProcessHostEvent, ENET_EVENT_TYPE_DISCONNECT
HostOnDisconnect(c, rest) ==
    /\ hostPeer' = [hostPeer EXCEPT ![c] = "none"]
    /\ peerOf' = [peerOf EXCEPT ![c] = NullPeer]
    /\ toHost' = [toHost EXCEPT ![c] = rest]
    /\ UNCHANGED <<RXQueue, peerData>>
    /\ IF peerData[peerOf[c]] = NullPeer
       THEN UNCHANGED <<Players, NumPlayers, ConnectedBitmask, RemotePeers, toClient>>
       ELSE LET slot == peerData[peerOf[c]]
                id == Players[HostMachine][slot].ID
            IN /\ ConnectedBitmask' = [ConnectedBitmask EXCEPT ![HostMachine] = @ \ {id}]
               /\ RemotePeers' = [RemotePeers EXCEPT ![HostMachine][id] = NullPeer]
               /\ Players' = [Players EXCEPT ![HostMachine][slot] =
                                 [@ EXCEPT !.ID = 0, !.Status = "None"]]
               /\ NumPlayers' = [NumPlayers EXCEPT ![HostMachine] = @ - 1]
               /\ toClient' = HostBroadcast(toClient, hostPeer',
                                  CmdPlayerList(NumPlayers'[HostMachine], Players'[HostMachine]))

\* ProcessHostEvent, Cmd_PlayerInfo: the id check
PlayerInfoMatches(player, hostside) == player.ID = hostside.ID

PlayerInfoStoredAsSent(player, address) ==
    [ID |-> player.ID, Status |-> player.Status, Address |-> address]

\* ProcessHostEvent, Cmd_PlayerInfo: what is copied into the host's slot
PlayerInfoStored(player, address) ==
    [ID |-> player.ID, Status |-> "Client", Address |-> address]

MPPacketGoodAnySender(m, header) == header.Long /\ header.MagicOK

\* NetworkThreadFunc: an MP-channel packet is kept
MPPacketGood(m, header) ==
    /\ header.Long
    /\ header.MagicOK
    /\ header.SenderID # MyPlayer[m].ID

\* NetworkThreadFunc, Chan_MP: the RX queue afterwards
RXQueueAfter(m, header, peer) ==
    IF MPPacketGood(m, header)
    THEN Append(RXQueue[m], [SenderID |-> header.SenderID, Type |-> header.Type,
                             Length |-> header.Length, Payload |-> header.Payload,
                             peer |-> peer])
    ELSE RXQueue[m]

\* ProcessHostEvent, ENET_EVENT_TYPE_RECEIVE (Chan_Cmd) and the Chan_MP
\* branch of NetworkThreadFunc
HostOnReceive(c, ev, rest) ==
    LET slot == peerData[peerOf[c]]
        hostside == Players[HostMachine][slot]
    IN CASE ev.chan = "MP" ->
                /\ RXQueue' = [RXQueue EXCEPT ![HostMachine] = RXQueueAfter(HostMachine, ev.header, c)]
                /\ toHost' = [toHost EXCEPT ![c] = rest]
                /\ UNCHANGED <<Players, NumPlayers, ConnectedBitmask, RemotePeers, hostPeer,
                               peerData, peerOf, toClient>>
         [] ev.chan = "Cmd" /\ ev.body.cmd = "PlayerInfo" ->
                IF ~ev.body.valid \/ ~PlayerInfoMatches(ev.body.player, hostside)
                THEN HostPeerDisconnect(c, "closing")
                ELSE /\ Players' = [Players EXCEPT ![HostMachine][slot] =
                                       PlayerInfoStored(ev.body.player, MachineAddress(c))]
                     /\ toClient' = HostBroadcast(toClient, hostPeer,
                                        CmdPlayerList(NumPlayers[HostMachine], Players'[HostMachine]))
                     /\ toHost' = [toHost EXCEPT ![c] = rest]
                     /\ UNCHANGED <<NumPlayers, ConnectedBitmask, RemotePeers, RXQueue,
                                    hostPeer, peerData, peerOf>>
         [] ev.chan = "Cmd" /\ ev.body.cmd \in {"PlayerConnect", "PlayerDisconnect"} ->
                /\ ConnectedBitmask' = [ConnectedBitmask EXCEPT ![HostMachine] =
                       IF slot = NullPeer THEN @
                       ELSE IF ev.body.cmd = "PlayerConnect" THEN @ \cup {hostside.ID}
                       ELSE @ \ {hostside.ID}]
                /\ toHost' = [toHost EXCEPT ![c] = rest]
                /\ UNCHANGED <<Players, NumPlayers, RemotePeers, RXQueue, hostPeer, peerData, peerOf,
                               toClient>>
         [] OTHER ->
                /\ toHost' = [toHost EXCEPT ![c] = rest]
                /\ UNCHANGED <<Players, NumPlayers, ConnectedBitmask, RemotePeers, RXQueue,
                               hostPeer, peerData, peerOf, toClient>>

\* One event of the host's network thread: NetworkThreadFunc's loop body
NetThreadHostEvent(c) ==
    /\ LanActive[HostMachine]
    /\ toHost[c] # <<>>
    /\ LET ev == Head(toHost[c])
           rest == Tail(toHost[c])
       IN CASE ev.type = "CONNECT" -> HostOnConnect(c, rest)
            [] ev.type = "DISCONNECT" -> HostOnDisconnect(c, rest)
            [] ev.type = "RECEIVE" -> HostOnReceive(c, ev, rest)
    /\ UNCHANGED <<LanActive, IsHost, MaxPlayers, MyPlayer, HostAddress, connPhase,
                   clientPeerUp, lanSessions, toggles, lastRecv, mpCount, LastHostID, LastHostPeer>>
    /\ cleanJoin' = (cleanJoin /\ hostPeer'[c] \notin {"closing", "rejected"})
    /\ forged' = (forged \/ LET ev == Head(toHost[c])
                            IN /\ ev.type = "RECEIVE" /\ ev.chan = "Cmd"
                               /\ ev.body.cmd = "PlayerInfo"
                               /\ ev.body.player.Status = "Host"
                               /\ hostPeer'[c] = "up")
    /\ UNCHANGED <<engineVars, threadVars, blobVars, rxVars, endVars, discVars, lockVars, tpVars>>
    /\ ownIdArrived' = (ownIdArrived \/ LET ev == Head(toHost[c])
                                        IN /\ ev.type = "RECEIVE" /\ ev.chan = "MP"
                                           /\ ev.header.Long /\ ev.header.MagicOK
                                           /\ ev.header.SenderID = MyPlayer[HostMachine].ID)

\* ProcessClientEvent; the only peer of a client is the host's, whose data
\* is &Players[0] (StartClient).
ClientOnEvent(c, ev) ==
    LET player == Players[c][0]
    IN CASE ev.type = "DISCONNECT" ->
                /\ ConnectedBitmask' = [ConnectedBitmask EXCEPT ![c] = @ \ {player.ID}]
                /\ RemotePeers' = [RemotePeers EXCEPT ![c][player.ID] = NullPeer]
                /\ Players' = [Players EXCEPT ![c][0].Status = "Disconnected"]
                /\ clientPeerUp' = [clientPeerUp EXCEPT ![c] = FALSE]
                /\ UNCHANGED <<NumPlayers, RXQueue>>
         [] ev.type = "RECEIVE" /\ ev.chan = "MP" ->
                /\ RXQueue' = [RXQueue EXCEPT ![c] = RXQueueAfter(c, ev.header, HostMachine)]
                /\ UNCHANGED <<Players, NumPlayers, ConnectedBitmask, RemotePeers, clientPeerUp>>
         [] ev.type = "RECEIVE" /\ ev.chan = "Cmd" /\ ev.body.cmd = "PlayerList"
                /\ ev.body.numPlayers <= 16 ->
                \* the connections then attempted to the other clients reach no
                \* listening ENet host and end in a DISCONNECT of a peer without data
                /\ NumPlayers' = [NumPlayers EXCEPT ![c] = ev.body.numPlayers]
                /\ Players' = [Players EXCEPT ![c] = ev.body.players]
                /\ UNCHANGED <<ConnectedBitmask, RemotePeers, RXQueue, clientPeerUp>>
         [] ev.type = "RECEIVE" /\ ev.chan = "Cmd"
                /\ ev.body.cmd \in {"PlayerConnect", "PlayerDisconnect"} ->
                /\ ConnectedBitmask' = [ConnectedBitmask EXCEPT ![c] =
                       IF ev.body.cmd = "PlayerConnect" THEN @ \cup {player.ID}
                       ELSE @ \ {player.ID}]
                /\ UNCHANGED <<Players, NumPlayers, RemotePeers, RXQueue, clientPeerUp>>
         [] OTHER ->
                UNCHANGED <<Players, NumPlayers, ConnectedBitmask, RemotePeers, RXQueue,
                            clientPeerUp>>

\* One event of a client's network thread: NetworkThreadFunc's loop body
NetThreadClientEvent(c) ==
    /\ LanActive[c]
    /\ toClient[c] # <<>>
    /\ ClientOnEvent(c, Head(toClient[c]))
    /\ toClient' = [toClient EXCEPT ![c] = Tail(@)]
    /\ UNCHANGED <<LanActive, IsHost, MaxPlayers, MyPlayer, HostAddress, connPhase, hostPeer,
                   peerData, peerOf, toHost, lanSessions, forged, toggles, lastRecv, mpCount, LastHostID,
                   LastHostPeer>>
    /\ cleanJoin' = (cleanJoin /\ Head(toClient[c]).type # "DISCONNECT")
    /\ UNCHANGED <<engineVars, threadVars, blobVars, rxVars, endVars, discVars, lockVars, tpVars>>
    /\ ownIdArrived' = (ownIdArrived \/ LET ev == Head(toClient[c])
                                        IN /\ ev.type = "RECEIVE" /\ ev.chan = "MP"
                                           /\ ev.header.Long /\ ev.header.MagicOK
                                           /\ ev.header.SenderID = MyPlayer[c].ID)

\* enet_host_broadcast / enet_peer_send from machine m: the queues afterwards
ClientCanSend(c) == clientPeerUp[c] /\ connPhase[c] # "conn0" /\ HostPeerOpen(c)

BroadcastFrom(m, ev) ==
    IF m = HostMachine
    THEN /\ toClient' = Deliver(toClient,
                                {c \in ClientMachines : hostPeer[c] = "up" /\ clientPeerUp[c]}, ev)
         /\ UNCHANGED toHost
    ELSE /\ toHost' = [toHost EXCEPT ![m] = IF ClientCanSend(m) THEN Append(@, ev) ELSE @]
         /\ UNCHANGED toClient

\* LAN::Begin
Begin(m) ==
    /\ HasEnetHost(m)
    /\ toggles < MaxToggles
    /\ toggles' = toggles + 1
    /\ ConnectedBitmask' = [ConnectedBitmask EXCEPT ![m] = @ \cup {MyPlayer[m].ID}]
    /\ LastHostID' = [LastHostID EXCEPT ![m] = -1]
    /\ LastHostPeer' = [LastHostPeer EXCEPT ![m] = NullPeer]
    /\ BroadcastFrom(m, EvCmd(CmdPlayerConnect))
    /\ UNCHANGED <<LanActive, IsHost, Players, NumPlayers, MaxPlayers, MyPlayer, HostAddress,
                   RemotePeers, RXQueue, connPhase, hostPeer, peerData, peerOf, clientPeerUp,
                   lanSessions, forged, lastRecv, mpCount>>
    /\ UNCHANGED cleanJoin
    /\ UNCHANGED <<engineVars, threadVars, blobVars, rxVars, endVars, discVars, lockVars, tpVars>>
    /\ UNCHANGED ownIdArrived

\* LAN::End
End(m) ==
    /\ HasEnetHost(m)
    /\ toggles < MaxToggles
    /\ toggles' = toggles + 1
    /\ ConnectedBitmask' = [ConnectedBitmask EXCEPT ![m] = @ \ {MyPlayer[m].ID}]
    /\ BroadcastFrom(m, EvCmd(CmdPlayerDisconnect))
    /\ UNCHANGED <<LanActive, IsHost, Players, NumPlayers, MaxPlayers, MyPlayer, HostAddress,
                   RemotePeers, RXQueue, connPhase, hostPeer, peerData, peerOf, clientPeerUp,
                   lanSessions, forged, lastRecv, mpCount, LastHostID, LastHostPeer>>
    /\ UNCHANGED cleanJoin
    /\ UNCHANGED <<engineVars, threadVars, blobVars, rxVars, endVars, discVars, lockVars, tpVars>>
    /\ UNCHANGED ownIdArrived

\* A connected client machine sends a PlayerInfo that StartClient would not
\* (one at a time, once the host's earlier broadcasts have been consumed)
ForgedPlayerInfo(c, valid, player) ==
    /\ clientPeerUp[c] /\ hostPeer[c] = "up"
    /\ toHost[c] = <<>>
    /\ \A d \in ClientMachines : toClient[d] = <<>>
    /\ toHost' = [toHost EXCEPT ![c] = Append(@, EvCmd(CmdPlayerInfo(valid, player)))]
    /\ UNCHANGED <<LanActive, IsHost, Players, NumPlayers, MaxPlayers, MyPlayer, HostAddress,
                   ConnectedBitmask, RemotePeers, RXQueue, connPhase, hostPeer, peerData, peerOf,
                   clientPeerUp, toClient, lanSessions, forged, toggles, lastRecv, mpCount, LastHostID,
                   LastHostPeer>>
    /\ UNCHANGED cleanJoin
    /\ UNCHANGED <<engineVars, threadVars, blobVars, rxVars, endVars, discVars, lockVars, tpVars>>
    /\ UNCHANGED ownIdArrived

\* The network delivers to client c, during StartClient's handshake, a
\* ClientInit that ProcessHostEvent of this program would not send: of
\* another length, magic or version (valid = FALSE), or with any byte as id
\* or max_players.  At most one is in flight, ahead of the host's own.
ArrivingClientInit(c, valid, id, maxPlayers) ==
    /\ connPhase[c] # "idle"
    /\ clientPeerUp[c] /\ hostPeer[c] = "pending"
    /\ Len(toClient[c]) <= 1
    /\ \A i \in 1..Len(toClient[c]) : toClient[c][i].type # "RECEIVE"
    /\ toClient' = [toClient EXCEPT ![c] = Append(@, EvCmd(CmdClientInit(valid, id, maxPlayers)))]
    /\ UNCHANGED <<LanActive, IsHost, Players, NumPlayers, MaxPlayers, MyPlayer, HostAddress,
                   ConnectedBitmask, RemotePeers, RXQueue, connPhase, hostPeer, peerData, peerOf,
                   clientPeerUp, toHost, lanSessions, forged, toggles, lastRecv, mpCount,
                   LastHostID, LastHostPeer, cleanJoin>>
    /\ UNCHANGED <<engineVars, threadVars, blobVars, rxVars, endVars, discVars, lockVars, tpVars>>
    /\ UNCHANGED ownIdArrived

EvMP(header) == [type |-> "RECEIVE", chan |-> "MP", header |-> header]

\* LAN::SendPacketGeneric; type is (type & 0xFFFF)
SendPacketGeneric(m, type, len) ==
    /\ HasEnetHost(m)
    /\ mpCount < MaxMPPackets
    /\ mpCount' = mpCount + 1
    /\ LET pktheader == [Long |-> TRUE, MagicOK |-> TRUE, SenderID |-> MyPlayer[m].ID,
                         Type |-> type, Length |-> len, Payload |-> len]
       IN IF type = 2 /\ LastHostPeer[m] # NullPeer
          THEN IF m = HostMachine
               THEN /\ toClient' = Deliver(toClient,
                                           {c \in {LastHostPeer[m]} :
                                               hostPeer[c] = "up" /\ clientPeerUp[c]},
                                           EvMP(pktheader))
                    /\ UNCHANGED toHost
               ELSE /\ toHost' = [toHost EXCEPT ![m] =
                                     IF ClientCanSend(m) THEN Append(@, EvMP(pktheader)) ELSE @]
                    /\ UNCHANGED toClient
          ELSE BroadcastFrom(m, EvMP(pktheader))
    /\ UNCHANGED <<LanActive, IsHost, Players, NumPlayers, MaxPlayers, MyPlayer, HostAddress,
                   ConnectedBitmask, RemotePeers, RXQueue, connPhase, hostPeer, peerData, peerOf,
                   clientPeerUp, lanSessions, forged, toggles, lastRecv, LastHostID,
                   LastHostPeer, cleanJoin>>
    /\ UNCHANGED <<engineVars, threadVars, blobVars, rxVars, endVars, discVars, lockVars, tpVars>>
    /\ UNCHANGED ownIdArrived

\* An MP-channel event that does not come from SendPacketGeneric of the peer
IsForeignMP(m, ev) ==
    /\ ev.type = "RECEIVE" /\ ev.chan = "MP"
    /\ \/ ~ev.header.Long \/ ~ev.header.MagicOK \/ ev.header.SenderID = MyPlayer[m].ID
       \/ ev.header.Length # ev.header.Payload

\* The network delivers to machine m, over the connection of client c, an
\* MP-channel packet that no SendPacketGeneric of the peer produced: too
\* short, of another magic, carrying m's own id, or with a Length field
\* that is not the size of its payload.  It arrives on a quiet
\* connection.
ArrivingMPPacket(m, c, header) ==
    /\ clientPeerUp[c] /\ hostPeer[c] = "up"
    /\ HasEnetHost(m)
    /\ IsForeignMP(m, EvMP(header))
    /\ toHost[c] = <<>> /\ toClient[c] = <<>>
    /\ UNCHANGED mpCount
    /\ IF m = HostMachine
       THEN /\ toHost' = [toHost EXCEPT ![c] = Append(@, EvMP(header))]
            /\ UNCHANGED toClient
       ELSE /\ toClient' = [toClient EXCEPT ![c] = Append(@, EvMP(header))]
            /\ UNCHANGED toHost
    /\ UNCHANGED <<LanActive, IsHost, Players, NumPlayers, MaxPlayers, MyPlayer, HostAddress,
                   ConnectedBitmask, RemotePeers, RXQueue, connPhase, hostPeer, peerData, peerOf,
                   clientPeerUp, lanSessions, forged, toggles, lastRecv, LastHostID,
                   LastHostPeer, cleanJoin>>
    /\ UNCHANGED <<engineVars, threadVars, blobVars, rxVars, endVars, discVars, lockVars, tpVars>>
    /\ UNCHANGED ownIdArrived

\* LAN::ProcessLAN(type) on a queue whose first 'stale' packets are outside
\* [now - 500, now]: the queue afterwards.  type 1 keeps a leading packet of
\* Type 0 and destroys any other; type 2 keeps whatever leads.
ProcessLAN(q, type, stale) ==
    LET fresh == SubSeq(q, stale + 1, Len(q))
    IN IF fresh # <<>> /\ type = 1 /\ Head(fresh).Type # 0 THEN Tail(fresh) ELSE fresh

\* RecvPacketGeneric: the number of payload bytes it copies to the caller
CopyLen(header) == IF header.Length > 2048 THEN 2048 ELSE header.Length

\* LAN::RecvPacketGeneric (RecvPacket: block = FALSE, RecvHostPacket: block = TRUE)
RecvPacketGeneric(m, block, stale) ==
    /\ HasEnetHost(m)
    /\ stale <= Len(RXQueue[m])
    /\ LET q == ProcessLAN(RXQueue[m], IF block THEN 2 ELSE 1, stale)
       IN IF q = <<>>
          THEN /\ RXQueue' = [RXQueue EXCEPT ![m] = <<>>]
               /\ lastRecv' = [lastRecv EXCEPT ![m] = <<>>]
               /\ UNCHANGED <<LastHostID, LastHostPeer>>
          ELSE LET header == Head(q)
               IN /\ RXQueue' = [RXQueue EXCEPT ![m] = Tail(q)]
                  /\ lastRecv' = [lastRecv EXCEPT ![m] =
                                     <<[header |-> header, localID |-> MyPlayer[m].ID,
                                        copied |-> CopyLen(header)]>>]
                  /\ IF header.Length > 0 /\ header.Type = 1
                     THEN /\ LastHostID' = [LastHostID EXCEPT ![m] = header.SenderID]
                          /\ LastHostPeer' = [LastHostPeer EXCEPT ![m] = header.peer]
                     ELSE UNCHANGED <<LastHostID, LastHostPeer>>
    /\ UNCHANGED <<LanActive, IsHost, Players, NumPlayers, MaxPlayers, MyPlayer, HostAddress,
                   ConnectedBitmask, RemotePeers, connPhase, hostPeer, peerData, peerOf, clientPeerUp,
                   toHost, toClient, lanSessions, forged, toggles, mpCount, cleanJoin>>
    /\ UNCHANGED <<engineVars, threadVars, blobVars, rxVars, endVars, discVars, lockVars, tpVars>>
    /\ UNCHANGED ownIdArrived

\* LAN::GetPlayerList
RECURSIVE PlayerListFrom(_, _)
PlayerListFrom(m, i) ==
    IF i \notin PlayerSlots THEN <<>>
    ELSE (IF Players[m][i].Status = "None" THEN <<>>
          ELSE LET newp == Players[m][i]
               IN IF newp.ID = MyPlayer[m].ID
                  THEN <<[ID |-> newp.ID, Status |-> newp.Status,
                          Address |-> kLocalhost, IsLocalPlayer |-> TRUE]>>
                  ELSE <<[ID |-> newp.ID, Status |-> newp.Status,
                          Address |-> IF newp.Status = "Host" THEN HostAddress[m]
                                      ELSE newp.Address,
                          IsLocalPlayer |-> FALSE]>>)
         \o PlayerListFrom(m, i + 1)

GetPlayerList(m) == PlayerListFrom(m, 0)

\* The slots GetPlayerList does not skip
Occupied(m) == {i \in PlayerSlots : Players[m][i].Status # "None"}

\* ------------------------------------------------------------------------
\* LAN: the RX queue against the millisecond clock.  One participant (the
\* host, player id 0), its network thread and its emulation thread.
\* ------------------------------------------------------------------------
\* MyPlayer.ID of the participant
RxMyID == 0

\* GetMSCount() when the session starts.  The clock of the model stays
\* between kStaleMs and 2^31, where the u32 arithmetic of the code does not wrap.
BootMs == 1000

\* What the network thread can enqueue: packets that passed MPPacketGood.
\* TsOK stands for !(header->Timestamp < timestamp - 0x100000) in RecvReplies.
RxPackets ==
    {[Type |-> t, Aid |-> 0, SenderID |-> 1, Length |-> 1, TsOK |-> TRUE, Stamp |-> 0] :
        t \in {0, 1}}
    \cup
    {[Type |-> 2, Aid |-> x[1], SenderID |-> x[1], Length |-> x[2], TsOK |-> x[3], Stamp |-> 0] :
        x \in {<<1, 1, TRUE>>, <<2, 1, TRUE>>, <<1, 0, TRUE>>, <<1, 1, FALSE>>}}

IdleCall == [op |-> "idle"]

NoCounts == [adv |-> 0, pkt |-> 0, call |-> 0, flip |-> 0]

RxInit ==
    /\ rxNow = BootMs
    /\ rxQueue = <<>>
    /\ MPRecvTimeout = kDefaultRecvTimeout
    /\ rxConnected = {}
    /\ rxCall = IdleCall
    /\ rxDelivered = <<>>
    /\ rxReturned = <<>>
    /\ rxCount = NoCounts

\* ProcessLAN: (packettime > time_last) || (packettime < (time_last - 500))
IsStale(pkt, time_last) == pkt.Stamp > time_last \/ pkt.Stamp < time_last - kStaleMs

\* ProcessLAN: how many leading packets the discard loop pops as stale
RECURSIVE StaleCount(_, _)
StaleCount(q, time_last) ==
    IF q = <<>> \/ ~IsStale(Head(q), time_last) THEN 0
    ELSE 1 + StaleCount(Tail(q), time_last)

\* Time passes while the emulation thread is outside the consumer calls
RxAdvance(d) ==
    /\ rxCall.op = "idle"
    /\ rxCount.adv < MaxRxAdvances
    /\ rxNow' = rxNow + d
    /\ rxCount' = [rxCount EXCEPT !.adv = @ + 1]
    /\ UNCHANGED <<rxQueue, MPRecvTimeout, rxConnected, rxCall, rxDelivered, rxReturned>>
    /\ UNCHANGED <<engineVars, threadVars, blobVars, lanVars, endVars, discVars, lockVars, tpVars>>

\* MPInterface::SetRecvTimeout
SetRecvTimeout(timeout) ==
    /\ rxCall.op = "idle"
    /\ MPRecvTimeout # timeout
    /\ MPRecvTimeout' = timeout
    /\ UNCHANGED <<rxNow, rxQueue, rxConnected, rxCall, rxDelivered, rxReturned, rxCount>>
    /\ UNCHANGED <<engineVars, threadVars, blobVars, lanVars, endVars, discVars, lockVars, tpVars>>

\* NetworkThreadFunc, Chan_MP, good: header->Magic = GetMSCount(); RXQueue.push
RxEnqueue(pkt) ==
    /\ rxCount.pkt < MaxRxPackets
    /\ rxQueue' = Append(rxQueue, [pkt EXCEPT !.Stamp = rxNow])
    /\ rxCount' = [rxCount EXCEPT !.pkt = @ + 1]
    /\ UNCHANGED <<rxNow, MPRecvTimeout, rxConnected, rxCall, rxDelivered, rxReturned>>
    /\ UNCHANGED <<engineVars, threadVars, blobVars, lanVars, endVars, discVars, lockVars, tpVars>>

\* ConnectedBitmask.fetch_or / fetch_and (Begin, End, Cmd_PlayerConnect,
\* Cmd_PlayerDisconnect, DISCONNECT)
RxSetConnected(i, on) ==
    /\ rxCount.flip < MaxRxFlips
    /\ (i \in rxConnected) # on
    /\ rxConnected' = IF on THEN rxConnected \cup {i} ELSE rxConnected \ {i}
    /\ rxCount' = [rxCount EXCEPT !.flip = @ + 1]
    /\ UNCHANGED <<rxNow, rxQueue, MPRecvTimeout, rxCall, rxDelivered, rxReturned>>
    /\ UNCHANGED <<engineVars, threadVars, blobVars, lanVars, endVars, discVars, lockVars, tpVars>>

\* RecvPacketGeneric after ProcessLAN: the packet it pops and copies out
RxPop(q, by, start, at) ==
    /\ rxQueue' = IF q = <<>> THEN q ELSE Tail(q)
    /\ rxDelivered' = IF q = <<>> THEN <<>>
                      ELSE <<[Stamp |-> Head(q).Stamp, at |-> at, by |-> by]>>
    /\ rxReturned' = <<[by |-> by, start |-> start, at |-> at, got |-> q # <<>>,
                        timeout |-> MPRecvTimeout]>>
    /\ rxCall' = IdleCall

\* LAN::RecvPacket = RecvPacketGeneric(packet, false, timestamp)
RxRecvPacket ==
    /\ rxCall.op = "idle"
    /\ rxCount.call < MaxRxCalls
    /\ rxCount' = [rxCount EXCEPT !.call = @ + 1]
    /\ RxPop(ProcessLAN(rxQueue, 1, StaleCount(rxQueue, rxNow)), "RecvPacket", rxNow, rxNow)
    /\ UNCHANGED <<rxNow, MPRecvTimeout, rxConnected>>
    /\ UNCHANGED <<engineVars, threadVars, blobVars, lanVars, endVars, discVars, lockVars, tpVars>>

\* LAN::RecvHostPacket = RecvPacketGeneric(packet, true, timestamp), up to
\* the sleep of ProcessLAN(2) when no packet was found
RxRecvHostPacket ==
    /\ rxCall.op = "idle"
    /\ rxCount.call < MaxRxCalls
    /\ rxCount' = [rxCount EXCEPT !.call = @ + 1]
    /\ LET q == ProcessLAN(rxQueue, 2, StaleCount(rxQueue, rxNow))
       IN IF q # <<>>
          THEN RxPop(q, "RecvHostPacket", rxNow, rxNow)
          ELSE /\ rxQueue' = q
               /\ rxCall' = [op |-> "hostwait", start |-> rxNow]
               /\ rxDelivered' = <<>>
               /\ UNCHANGED rxReturned
    /\ UNCHANGED <<rxNow, MPRecvTimeout, rxConnected>>
    /\ UNCHANGED <<engineVars, threadVars, blobVars, lanVars, endVars, discVars, lockVars, tpVars>>

\* ProcessLAN(2): sleep_for(2 ms), then RecvPacketGeneric pops what is there
RxRecvHostPacketWake ==
    /\ rxCall.op = "hostwait"
    /\ rxNow' = rxNow + 2
    /\ RxPop(rxQueue, "RecvHostPacket", rxCall.start, rxNow + 2)
    /\ UNCHANGED <<MPRecvTimeout, rxConnected, rxCount>>
    /\ UNCHANGED <<engineVars, threadVars, blobVars, lanVars, endVars, discVars, lockVars, tpVars>>

ReplyGoodAnyType(pkt) == pkt.TsOK

\* RecvReplies: good
ReplyGood(pkt) == pkt.Type = 2 /\ pkt.TsOK

RepliesSatisfiedConnOnly(inst, connmask, ret, aidmask) == connmask \subseteq inst

\* RecvReplies: ((myinstmask & connmask) == connmask) || ((ret & aidmask) == aidmask)
RepliesSatisfied(inst, connmask, ret, aidmask) == connmask \subseteq inst \/ aidmask \subseteq ret

\* RecvReplies: the drain loop over the queue, under RXQueueMutex.  st.accepted
\* and st.filled observe the replies that passed the two filters and those of
\* them that carried a payload.
RECURSIVE Drain(_, _)
Drain(q, st) ==
    IF q = <<>> THEN [q |-> q, st |-> st, done |-> FALSE]
    ELSE LET pkt == Head(q)
             good == ReplyGood(pkt)
             copied == good /\ pkt.Length > 0
             ret == IF copied THEN st.ret \cup {pkt.Aid} ELSE st.ret
             inst == IF good THEN st.inst \cup {pkt.SenderID} ELSE st.inst
             isReply == pkt.Type = 2 /\ pkt.TsOK
             st2 == [st EXCEPT !.ret = ret, !.inst = inst,
                               !.accepted = IF isReply THEN @ \cup {pkt.Aid} ELSE @,
                               !.filled = IF isReply /\ pkt.Length > 0 THEN @ \cup {pkt.Aid} ELSE @,
                               !.deliv = IF copied
                                         THEN Append(@, [Stamp |-> pkt.Stamp, at |-> rxNow,
                                                         by |-> "RecvReplies"])
                                         ELSE @]
         IN IF good /\ RepliesSatisfied(inst, rxConnected, ret, st.aidmask)
            THEN [q |-> Tail(q), st |-> st2, done |-> TRUE]
            ELSE Drain(Tail(q), st2)

\* What RecvReplies hands back
RepliesReturn(st, at, satisfied) ==
    [by |-> "RecvReplies", start |-> st.start, at |-> at, got |-> st.ret # {},
     ret |-> st.ret, accepted |-> st.accepted, filled |-> st.filled,
     timeout |-> MPRecvTimeout, satisfied |-> satisfied,
     inst |-> st.inst, connmask |-> rxConnected, aidmask |-> st.aidmask]

\* LAN::RecvReplies up to its loop
RxRecvRepliesCall(aidmask) ==
    /\ rxCall.op = "idle"
    /\ rxCount.call < MaxRxCalls
    /\ rxCount' = [rxCount EXCEPT !.call = @ + 1]
    /\ rxDelivered' = <<>>
    /\ LET st == [op |-> "replies", start |-> rxNow, ret |-> {}, inst |-> {RxMyID},
                  aidmask |-> aidmask, accepted |-> {}, filled |-> {}, deliv |-> <<>>]
       IN IF rxConnected \subseteq {RxMyID}
          THEN /\ rxReturned' = <<RepliesReturn(st, rxNow, FALSE)>>
               /\ UNCHANGED rxCall
          ELSE /\ rxCall' = st
               /\ UNCHANGED rxReturned
    /\ UNCHANGED <<rxNow, rxQueue, MPRecvTimeout, rxConnected>>
    /\ UNCHANGED <<engineVars, threadVars, blobVars, lanVars, endVars, discVars, lockVars, tpVars>>

\* LAN::RecvReplies, one turn of for (;;): drain, timeout check, sleep_for(1 ms)
RxRecvRepliesIterate ==
    /\ rxCall.op = "replies"
    /\ LET r == Drain(rxQueue, rxCall)
       IN /\ rxQueue' = r.q
          /\ rxDelivered' = r.st.deliv
          /\ IF r.done \/ MPRecvTimeout - (rxNow - rxCall.start) <= 0
             THEN /\ rxReturned' = <<RepliesReturn(r.st, rxNow, r.done)>>
                  /\ rxCall' = IdleCall
                  /\ UNCHANGED rxNow
             ELSE /\ rxCall' = r.st
                  /\ rxNow' = rxNow + 1
                  /\ UNCHANGED rxReturned
    /\ UNCHANGED <<MPRecvTimeout, rxConnected, rxCount>>
    /\ UNCHANGED <<engineVars, threadVars, blobVars, lanVars, endVars, discVars, lockVars, tpVars>>


\* ------------------------------------------------------------------------
\* LAN discovery: beacons, the listener's list and its clock
\* ------------------------------------------------------------------------
DiscSources == {1}

NeverMs == -1

\* Datagrams that can arrive.  Long: rlen >= sizeof(beacon).
GoodBeacon(src, tick) ==
    [src |-> src, Long |-> TRUE, MagicOK |-> TRUE, VersionOK |-> TRUE, Tick |-> tick,
     NumPlayers |-> 1, MaxPlayers |-> 4]

Beacons ==
    {GoodBeacon(src, tick) : src \in DiscSources, tick \in {1, 2}}
    \cup {[GoodBeacon(src, 2) EXCEPT !.MagicOK = FALSE] : src \in DiscSources}
    \cup {[GoodBeacon(src, 2) EXCEPT !.MaxPlayers = 17] : src \in DiscSources}

NoBeacons == [k \in {} |-> [Tick |-> 0, Magic |-> 0]]

\* LAN::LAN
DiscInit ==
    /\ discNow = BootMs
    /\ DiscoverySocket = FALSE
    /\ DiscoveryLastTick = 0
    /\ DiscoveryList = NoBeacons
    /\ discIsHost = FALSE
    /\ discInbox = <<>>
    /\ discSent = <<>>
    /\ discLastValid = [src \in DiscSources |-> NeverMs]
    /\ discLastFresh = [src \in DiscSources |-> NeverMs]
    /\ discCount = 0

\* ProcessDiscovery: the checks a datagram has to pass
BeaconValid(beacon) ==
    /\ beacon.Long
    /\ beacon.MagicOK
    /\ beacon.VersionOK
    /\ ~(beacon.MaxPlayers > 16)
    /\ ~(beacon.NumPlayers > beacon.MaxPlayers)

\* ProcessDiscovery: beacon.Tick <= DiscoveryList[key].Tick
BeaconOutdated(list, beacon) ==
    beacon.src \in DOMAIN list /\ beacon.Tick <= list[beacon.src].Tick

\* ProcessDiscovery: DiscoveryList[key] = beacon, with beacon.Magic = tick
StoreBeacon(list, beacon, tick) ==
    [k \in (DOMAIN list) \cup {beacon.src} |->
        IF k = beacon.src THEN [Tick |-> beacon.Tick, Magic |-> tick] ELSE list[k]]

\* ProcessDiscovery: the receive loop, until select() finds nothing more
RECURSIVE DiscoveryReceive(_, _, _)
DiscoveryReceive(inbox, list, tick) ==
    IF inbox = <<>> THEN list
    ELSE LET beacon == Head(inbox)
         IN IF ~BeaconValid(beacon) \/ BeaconOutdated(list, beacon)
            THEN DiscoveryReceive(Tail(inbox), list, tick)
            ELSE DiscoveryReceive(Tail(inbox), StoreBeacon(list, beacon, tick), tick)

BeaconExpiredLate(age) == age > kDiscoveryKeepMs

\* ProcessDiscovery, cleanup: if (age < 5000) continue
BeaconExpired(age) == ~(age < kDiscoveryKeepMs)

\* ProcessDiscovery: the list after the cleanup
DiscoveryCleanup(list, tick) ==
    LET keep == {k \in DOMAIN list : ~BeaconExpired(tick - list[k].Magic)}
    IN [k \in keep |-> list[k]]

\* Time passes
DiscAdvance(d) ==
    /\ discNow + d <= BootMs + MaxDiscMs
    /\ discNow' = discNow + d
    /\ UNCHANGED <<DiscoverySocket, DiscoveryLastTick, DiscoveryList, discIsHost, discInbox,
                   discSent, discLastValid, discLastFresh, discCount>>
    /\ UNCHANGED <<engineVars, threadVars, blobVars, lanVars, rxVars, endVars, lockVars, tpVars>>

\* LAN::StartDiscovery, by StartHost (isHost) or by the LAN dialog (listener)
StartDiscovery(isHost) ==
    /\ ~DiscoverySocket
    /\ DiscoverySocket' = TRUE
    /\ discIsHost' = isHost
    /\ DiscoveryLastTick' = discNow
    /\ DiscoveryList' = NoBeacons
    /\ discInbox' = <<>>
    /\ discLastValid' = [src \in DiscSources |-> NeverMs]
    /\ discLastFresh' = [src \in DiscSources |-> NeverMs]
    /\ UNCHANGED <<discNow, discSent, discCount>>
    /\ UNCHANGED <<engineVars, threadVars, blobVars, lanVars, rxVars, endVars, lockVars, tpVars>>

\* LAN::EndDiscovery
EndDiscovery ==
    /\ DiscoverySocket
    /\ DiscoverySocket' = FALSE
    /\ discInbox' = <<>>
    /\ UNCHANGED <<discNow, DiscoveryLastTick, DiscoveryList, discIsHost, discSent,
                   discLastValid, discLastFresh, discCount>>
    /\ UNCHANGED <<engineVars, threadVars, blobVars, lanVars, rxVars, endVars, lockVars, tpVars>>

\* A datagram reaches the open socket
BeaconArrives(beacon) ==
    /\ DiscoverySocket
    /\ discCount < MaxBeacons
    /\ discInbox' = Append(discInbox, beacon)
    /\ discCount' = discCount + 1
    /\ UNCHANGED <<discNow, DiscoverySocket, DiscoveryLastTick, DiscoveryList, discIsHost,
                   discSent, discLastValid, discLastFresh>>
    /\ UNCHANGED <<engineVars, threadVars, blobVars, lanVars, rxVars, endVars, lockVars, tpVars>>

\* LAN::ProcessDiscovery past its two early returns
ProcessDiscovery ==
    /\ DiscoverySocket
    /\ ~((discNow - DiscoveryLastTick) < kDiscoveryTickMs)
    /\ DiscoveryLastTick' = discNow
    /\ IF discIsHost
       THEN /\ discSent' = <<[Tick |-> discNow]>>
            /\ UNCHANGED <<DiscoveryList, discInbox, discLastValid, discLastFresh>>
       ELSE /\ DiscoveryList' = DiscoveryCleanup(DiscoveryReceive(discInbox, DiscoveryList, discNow),
                                                 discNow)
            /\ discInbox' = <<>>
            /\ discLastValid' =
                  [src \in DiscSources |->
                      IF \E i \in 1..Len(discInbox) :
                            discInbox[i].src = src /\ BeaconValid(discInbox[i])
                      THEN discNow ELSE discLastValid[src]]
            /\ discLastFresh' =
                  [src \in DiscSources |->
                      IF \E i \in 1..Len(discInbox) :
                            /\ discInbox[i].src = src /\ BeaconValid(discInbox[i])
                            /\ (src \in DOMAIN DiscoveryList =>
                                    discInbox[i].Tick > DiscoveryList[src].Tick)
                      THEN discNow ELSE discLastFresh[src]]
            /\ UNCHANGED discSent
    /\ UNCHANGED <<discNow, DiscoverySocket, discIsHost, discCount>>
    /\ UNCHANGED <<engineVars, threadVars, blobVars, lanVars, rxVars, endVars, lockVars, tpVars>>

\* ------------------------------------------------------------------------
\* Mutexes.  Every operation below is the sequence of the lock, unlock and
\* shared-object statements of its function, in program order; a thread
\* runs one such sequence at a time, one statement per step.  A thread
\* whose next statement is a read, write or use is performing it; a thread
\* whose next statement is a lock is waiting for that mutex.
\* ------------------------------------------------------------------------
LockThreads == {"net", "emu", "ui"}

NoThread == "none"

Mutexes == {"ENetMutex", "RXQueueMutex", "PlayersMutex", "InputMutex", "TransportMutex"}

\* The ENet host objects: LAN::Host and NetplayTransport::Host
HostObjects == {"LAN", "Transport"}

St(k, a, n) == [k |-> k, a |-> a, n |-> n]

Lock(m) == St("lock", m, 0)

Unlock(m) == St("unlock", m, 0)

Read(obj) == St("read", obj, 0)

Write(obj) == St("write", obj, 0)

\* enet_host_service / enet_host_broadcast / enet_peer_send / enet_host_flush
Use(host) == St("use", host, 0)

\* if (!Host) leave out the next n statements
IfHost(host, n) == St("ifHost", host, n)

\* if (!Active) leave out the next n statements
IfActive(n) == St("ifActive", "", n)

Return == St("return", "", 0)

\* A ProcessLAN that flushed the host while it holds the RX queue
ProcessLANStepsFlushing ==
    <<IfHost("LAN", 6), Lock("RXQueueMutex"), Write("RXQueue"), Lock("ENetMutex"), Use("LAN"),
      Unlock("ENetMutex"), Unlock("RXQueueMutex")>>

\* LAN::ProcessLAN
ProcessLANSteps ==
    <<IfHost("LAN", 3), Lock("RXQueueMutex"), Write("RXQueue"), Unlock("RXQueueMutex")>>

\* LAN::Process (ping: this is the call in which FrameCount reaches 60)
ProcessSteps(ping) ==
    <<IfActive(Len(ProcessLANSteps) + 4 + (IF ping THEN 3 ELSE 0))>>
    \o ProcessLANSteps
    \o <<Lock("ENetMutex"), IfHost("LAN", 1), Use("LAN"), Unlock("ENetMutex")>>
    \o (IF ping THEN <<Lock("PlayersMutex"), Write("Players"), Unlock("PlayersMutex")>>
        ELSE <<>>)
    \o <<Return>>

\* LAN::Begin: enet_host_broadcast, enet_host_flush
BeginSteps ==
    <<IfHost("LAN", 4), Lock("ENetMutex"), Use("LAN"), Use("LAN"), Unlock("ENetMutex"),
      Return>>

\* LAN::End has the statements of LAN::Begin
EndSteps == BeginSteps

\* LAN::SendPacketGeneric: enet_peer_send or enet_host_broadcast, enet_host_flush
SendPacketGenericSteps ==
    <<IfHost("LAN", 4), Lock("ENetMutex"), Use("LAN"), Use("LAN"), Unlock("ENetMutex"),
      Return>>

\* LAN::RecvPacketGeneric
RecvPacketGenericSteps ==
    <<IfHost("LAN", Len(ProcessLANSteps) + 3)>>
    \o ProcessLANSteps
    \o <<Lock("RXQueueMutex"), Write("RXQueue"), Unlock("RXQueueMutex"), Return>>

\* LAN::RecvReplies, one turn of its loop
RecvRepliesSteps ==
    <<IfHost("LAN", 3), Lock("RXQueueMutex"), Write("RXQueue"), Unlock("RXQueueMutex"),
      Return>>

\* LAN::StartHost
StartHostSteps ==
    <<St("create", "LAN", 0), Lock("PlayersMutex"), Write("Players"), Unlock("PlayersMutex"),
      St("setActive", "", 1), St("setIsHost", "", 1), St("startnet", "", 0), Return>>

\* LAN::StartClient: the handshake loop polls the host with enet_host_service
StartClientSteps ==
    <<St("create", "LAN", 0), Lock("PlayersMutex"), Write("Players"), Unlock("PlayersMutex"),
      Use("LAN"), St("setActive", "", 1), St("setIsHost", "", 0), St("startnet", "", 0),
      Return>>

\* LAN::EndSession: StopNetThread, the RXQueue drain, enet_peer_disconnect,
\* enet_host_destroy, Host = nullptr
EndSessionSteps ==
    <<IfActive(8), St("stopnet", "", 0), St("join", "", 0), St("setActive", "", 0),
      Write("RXQueue"), Use("LAN"), St("destroy", "LAN", 0), St("null", "LAN", 0),
      St("setIsHost", "", 0), Return>>

\* LAN::GetPlayerList
GetPlayerListSteps ==
    <<Lock("PlayersMutex"), Read("Players"), Unlock("PlayersMutex"), Return>>

\* NetworkThreadFunc, good MP packet: RXQueue.push
MPPacketSteps == <<Lock("RXQueueMutex"), Write("RXQueue"), Unlock("RXQueueMutex")>>

\* ProcessHostEvent, CONNECT: enet_peer_send, then the slot is filled
HostConnectSteps ==
    <<Use("LAN"), Lock("PlayersMutex"), Write("Players"), Unlock("PlayersMutex")>>

\* ProcessHostEvent, DISCONNECT: the slot is cleared, HostUpdatePlayerList
HostDisconnectSteps == <<Write("Players"), Read("Players"), Use("LAN")>>

\* ProcessHostEvent, Cmd_PlayerInfo: the slot is stored, HostUpdatePlayerList
HostPlayerInfoSteps ==
    <<Read("Players"), Lock("PlayersMutex"), Write("Players"), Unlock("PlayersMutex"),
      Read("Players"), Use("LAN")>>

\* ProcessClientEvent, DISCONNECT
ClientDisconnectSteps ==
    <<Read("Players"), Lock("PlayersMutex"), Write("Players"), Unlock("PlayersMutex")>>

\* ProcessClientEvent, Cmd_PlayerList: the table is replaced, enet_host_connect
ClientPlayerListSteps ==
    <<Lock("PlayersMutex"), Write("Players"), Unlock("PlayersMutex"), Read("Players"),
      Use("LAN")>>

\* NetworkThreadFunc, one turn of its loop handling one event (or none);
\* the last two statements are the way out by 'if (!Host) break'.
NetworkThreadFuncSteps(event) ==
    <<Lock("ENetMutex"), IfHost("LAN", Len(event) + 3), Use("LAN")>>
    \o event
    \o <<Unlock("ENetMutex"), Return, Unlock("ENetMutex"), St("exit", "", 0)>>

\* NetplayTransport::StartHost
TransportStartHostSteps ==
    <<Lock("TransportMutex"), St("create", "Transport", 0), Unlock("TransportMutex"), Return>>

\* NetplayTransport::Stop
StopSteps ==
    <<Lock("TransportMutex"), IfHost("Transport", 4), Use("Transport"), Use("Transport"),
      St("destroy", "Transport", 0), St("null", "Transport", 0), Unlock("TransportMutex"),
      Return>>

\* NetplayTransport::SendTo
SendToSteps ==
    <<Lock("TransportMutex"), IfHost("Transport", 1), Use("Transport"),
      Unlock("TransportMutex"), Return>>

\* NetplayTransport::Broadcast
BroadcastSteps ==
    <<Lock("TransportMutex"), IfHost("Transport", 1), Use("Transport"),
      Unlock("TransportMutex"), Return>>

\* NetplayTransport::Poll
PollSteps ==
    <<Lock("TransportMutex"), IfHost("Transport", 1), Use("Transport"),
      Unlock("TransportMutex"), Return>>

\* NetplaySession::SetLocalInput: InputBuf cell, InputReady cell
SetLocalInputSteps ==
    <<Lock("InputMutex"), Write("InputBuf"), Write("InputReady"), Unlock("InputMutex"),
      Return>>

\* NetplaySession::SetRemoteInput
SetRemoteInputSteps ==
    <<Lock("InputMutex"), Write("InputBuf"), Write("InputReady"), Unlock("InputMutex"),
      Return>>

\* NetplaySession::ReadyForFrame
ReadyForFrameSteps == <<Read("InputReady"), Return>>

\* NetplaySession::ApplyInputs
ApplyInputsSteps == <<Read("InputBuf"), Write("InputReady"), Return>>

\* The statement a thread is at
Idle(t) == lkOp[t] = <<>>

Ins(t) == IF Idle(t) THEN St("idle", "", 0) ELSE lkOp[t][lkPc[t]]

LockInit ==
    /\ lkHolder = [m \in Mutexes |-> NoThread]
    /\ lkOp = [t \in LockThreads |-> <<>>]
    /\ lkPc = [t \in LockThreads |-> 0]
    /\ lkHost = [h \in HostObjects |-> "null"]
    /\ lkActive = FALSE
    /\ lkIsHost = FALSE
    /\ NetThreadRunning = FALSE
    /\ netThreadAlive = FALSE

\* A thread enters an operation.
LockCall(t, steps) ==
    /\ Idle(t)
    /\ lkOp' = [lkOp EXCEPT ![t] = steps]
    /\ lkPc' = [lkPc EXCEPT ![t] = 1]
    /\ UNCHANGED <<lkHolder, lkHost, lkActive, lkIsHost, NetThreadRunning, netThreadAlive>>
    /\ UNCHANGED <<engineVars, threadVars, blobVars, lanVars, rxVars, endVars, discVars, tpVars>>

\* A thread executes the statement it is at.
LockStep(t) ==
    /\ ~Idle(t)
    /\ LET ins == Ins(t)
           next == lkPc[t] + 1
       IN /\ ins.k = "lock" => lkHolder[ins.a] = NoThread
          /\ ins.k = "join" => ~netThreadAlive
          /\ lkHolder' = CASE ins.k = "lock" -> [lkHolder EXCEPT ![ins.a] = t]
                           [] ins.k = "unlock" -> [lkHolder EXCEPT ![ins.a] = NoThread]
                           [] OTHER -> lkHolder
          /\ lkHost' = CASE ins.k = "create" -> [lkHost EXCEPT ![ins.a] = "live"]
                         [] ins.k = "destroy" -> [lkHost EXCEPT ![ins.a] = "freed"]
                         [] ins.k = "null" -> [lkHost EXCEPT ![ins.a] = "null"]
                         [] OTHER -> lkHost
          /\ lkActive' = IF ins.k = "setActive" THEN ins.n = 1 ELSE lkActive
          /\ lkIsHost' = IF ins.k = "setIsHost" THEN ins.n = 1 ELSE lkIsHost
          /\ NetThreadRunning' = CASE ins.k = "startnet" -> TRUE
                                   [] ins.k = "stopnet" -> FALSE
                                   [] OTHER -> NetThreadRunning
          /\ netThreadAlive' = CASE ins.k = "startnet" /\ ~NetThreadRunning -> TRUE
                                 [] ins.k = "exit" -> FALSE
                                 [] OTHER -> netThreadAlive
          /\ lkOp' = IF ins.k \in {"return", "exit"} THEN [lkOp EXCEPT ![t] = <<>>] ELSE lkOp
          /\ lkPc' = [lkPc EXCEPT ![t] =
                        CASE ins.k \in {"return", "exit"} -> 0
                          [] ins.k = "ifHost" /\ lkHost[ins.a] = "null" -> next + ins.n
                          [] ins.k = "ifActive" /\ ~lkActive -> next + ins.n
                          [] OTHER -> next]
    /\ UNCHANGED <<engineVars, threadVars, blobVars, lanVars, rxVars, endVars, discVars, tpVars>>

\* NetworkThreadFunc: while (NetThreadRunning), then the next turn with the
\* event enet_host_service hands out
HostEvents == {HostConnectSteps, HostDisconnectSteps, HostPlayerInfoSteps}

ClientEvents == {ClientDisconnectSteps, ClientPlayerListSteps}

NetworkThreadFuncLoop ==
    /\ netThreadAlive
    /\ Idle("net")
    /\ IF ~NetThreadRunning
       THEN /\ netThreadAlive' = FALSE
            /\ UNCHANGED <<lkOp, lkPc>>
       ELSE /\ \E event \in {<<>>, MPPacketSteps}
                            \cup (IF lkIsHost THEN HostEvents ELSE ClientEvents) :
                  lkOp' = [lkOp EXCEPT !["net"] = NetworkThreadFuncSteps(event)]
            /\ lkPc' = [lkPc EXCEPT !["net"] = 1]
            /\ UNCHANGED netThreadAlive
    /\ UNCHANGED <<lkHolder, lkHost, lkActive, lkIsHost, NetThreadRunning>>
    /\ UNCHANGED <<engineVars, threadVars, blobVars, lanVars, rxVars, endVars, discVars, tpVars>>

\* ------------------------------------------------------------------------
\* ------------------------------------------------------------------------
\* NetplayTransport in host mode: the Peers array and Poll's handling of
\* CONNECT, DISCONNECT and RECEIVE events
\* ------------------------------------------------------------------------
\* enet_host_create(&addr, maxClients = kNetplayMaxPlayers - 1, ...): the
\* peers of the transport's ENet host
TpEnetPeers == 0..(kNetplayMaxPlayers - 2)

PeerIndexes == 0..(kNetplayMaxPlayers - 1)

\* NetplayTransport::NetplayTransport: Peers {} and NumPeers = 0; ENet sets
\* the data of its peers to NULL
TpInit ==
    /\ tpHost = FALSE
    /\ Peers = [i \in PeerIndexes |-> NullPeer]
    /\ NumPeers = 0
    /\ tpPeerData = [p \in TpEnetPeers |-> 0]
    /\ tpUp = {}
    /\ tpCount = 0

TpOthersUnchanged ==
    UNCHANGED <<engineVars, threadVars, blobVars, lanVars, rxVars, endVars, discVars, lockVars>>

\* NetplaySession::HostStart / NetplayTransport::StartHost
TransportStartHost ==
    /\ ~tpHost
    /\ tpCount < MaxTpEvents
    /\ tpCount' = tpCount + 1
    /\ tpHost' = TRUE
    /\ NumPeers' = 0
    /\ UNCHANGED <<Peers, tpPeerData, tpUp>>
    /\ TpOthersUnchanged

\* NetplayTransport::Stop
TransportStop ==
    /\ tpHost
    /\ Peers' = [i \in PeerIndexes |-> IF i < NumPeers THEN NullPeer ELSE Peers[i]]
    /\ tpHost' = FALSE
    /\ NumPeers' = 0
    /\ tpUp' = {}
    /\ UNCHANGED <<tpPeerData, tpCount>>
    /\ TpOthersUnchanged

\* Poll, ENET_EVENT_TYPE_CONNECT in host mode, for the ENet peer p that an
\* incoming connection occupies
PollConnect(p) ==
    /\ tpHost
    /\ p \notin tpUp
    /\ tpCount < MaxTpEvents
    /\ tpCount' = tpCount + 1
    /\ IF NumPeers < kNetplayMaxPlayers
       THEN /\ Peers' = [Peers EXCEPT ![NumPeers] = p]
            /\ tpPeerData' = [tpPeerData EXCEPT ![p] = NumPeers]
            /\ NumPeers' = NumPeers + 1
            /\ tpUp' = tpUp \cup {p}
       ELSE \* enet_peer_disconnect_now: no event follows
            UNCHANGED <<Peers, tpPeerData, NumPeers, tpUp>>
    /\ UNCHANGED tpHost
    /\ TpOthersUnchanged

\* Poll, ENET_EVENT_TYPE_DISCONNECT of the connected ENet peer p
PollDisconnect(p) ==
    /\ tpHost
    /\ p \in tpUp
    /\ tpUp' = tpUp \ {p}
    /\ LET found == {i \in PeerIndexes : i < NumPeers /\ Peers[i] = p}
       IN Peers' = IF found = {} THEN Peers
                   ELSE [Peers EXCEPT ![CHOOSE i \in found : \A j \in found : i <= j] = NullPeer]
    /\ UNCHANGED <<tpHost, NumPeers, tpPeerData, tpCount>>
    /\ TpOthersUnchanged

\* Poll, ENET_EVENT_TYPE_RECEIVE of an InputFrame message in host mode:
\* peerIdx = peer->data, callback -> HandleInputMessage
PollReceive(p, input) ==
    /\ tpHost
    /\ p \in tpUp
    /\ HandleInputMessage(0, tpPeerData[p], input)

\* Initial state: the sessions as their constructors leave them
\* ------------------------------------------------------------------------
EngineInit ==
    /\ Active = [s \in Sessions |-> FALSE]
    /\ NumInstances = [s \in Sessions |-> 0]
    /\ LocalPlayerID = [s \in Sessions |-> 0]
    /\ InputDelay = [s \in Sessions |-> 4]
    /\ CurrentFrame = [s \in Sessions |-> 0]
    /\ HostMode = [s \in Sessions |-> FALSE]
    /\ InputBuf = [s \in Sessions |-> EmptyBuf]
    /\ InputReady = [s \in Sessions |-> {}]
    /\ LastStateHash = [s \in Sessions |-> 0]
    /\ LastHashFrame = [s \in Sessions |-> 0]
    /\ TransportConnected = [s \in Sessions |-> FALSE]
    /\ ctrlChan = [s \in Sessions |-> <<>>]
    /\ Applied = [s \in Sessions |-> NoApplied]
    /\ StateHashAt = [s \in Sessions |-> [f \in {} |-> 0]]
    /\ AlertsHandled = [s \in Sessions |-> {}]
    /\ DesyncFired = [s \in Sessions |-> {}]

Init == EngineInit /\ ThreadInit /\ BlobInit /\ LanInit /\ RxInit /\ EndInit /\ DiscInit /\ LockInit
        /\ TpInit

\* ------------------------------------------------------------------------
\* SpecEngine: one session, its input ring and frame loop
\* ------------------------------------------------------------------------
EngSessionInit ==
    \E numPlayers \in 2..MaxInstances, localPlayerID \in 0..(MaxInstances - 1),
       inputDelay \in 0..MaxDelay :
        /\ ~Active[0]
        /\ SessionInit(0, localPlayerID, numPlayers, inputDelay)

EngSetLocalInput == \E input \in LocalInputs : Active[0] /\ SetLocalInput(0, input)

EngHandleInputMessage ==
    \E peerIdx \in 0..(kNetplayMaxPlayers - 1), f \in RemoteFrameNums, input \in LocalInputs :
        Active[0] /\ HandleInputMessage(0, peerIdx, [input EXCEPT !.FrameNum = f])

EngRunFrame == RunFrame(0, MaxFrame)

NextEngine == EngSessionInit \/ EngSetLocalInput \/ EngHandleInputMessage \/ EngRunFrame

SpecEngine == Init /\ [][NextEngine]_vars

\* ------------------------------------------------------------------------
\* C1 (stated as claimed): every frame RunFrame consumes had all of its
\* NumInstances ring slots flagged ready when ApplyInputs read them.
\* ------------------------------------------------------------------------
C1_ConsumedFramesWereReady ==
    \A s \in Sessions :
        Applied[s].frame # -1 => \A p \in 0..(Applied[s].n - 1) : Applied[s].ready[p]

\* ------------------------------------------------------------------------
\* SpecDesync: a host session and a client session, connected, each running
\* frames at its own pace and exchanging DesyncAlert messages
\* ------------------------------------------------------------------------
DesSessionInit == \E s \in Sessions : ~Active[s] /\ SessionInit(s, s, 2, 0)

DesTransportConnect == Active[0] /\ Active[1] /\ TransportConnect

DesRunFrame == \E s \in Sessions : RunFrame(s, MaxDesyncFrame)

DesHandleDesyncAlert == \E s \in Sessions : HandleDesyncAlert(s)

NextDesync == DesSessionInit \/ DesTransportConnect \/ DesRunFrame \/ DesHandleDesyncAlert

SpecDesync == Init /\ [][NextDesync]_vars

\* ------------------------------------------------------------------------
\* C3 (stated as claimed): a session that has handled the peer's
\* DesyncAlert{F, hash} and whose own state hash at checkpoint F differs
\* from it has run its desync callback for F, wherever its frame counter
\* stood when the alert was delivered.
\* ------------------------------------------------------------------------
C3_DesyncAlertNeverSuppressed ==
    \A s \in Sessions : \A a \in AlertsHandled[s] :
        (a[1] \in DOMAIN StateHashAt[s] /\ StateHashAt[s][a[1]] # a[2])
            => a[1] \in DesyncFired[s]

\* ------------------------------------------------------------------------
\* SpecThreads: the controller and the instance threads of session 0,
\* one step per lock acquisition / shared read
\* ------------------------------------------------------------------------
ThrSessionInit ==
    \E numPlayers \in 2..MaxInstances :
        ~Active[0] /\ ctlPc = "idle" /\ SessionInit(0, 0, numPlayers, 0)

ThrRunFrameBegin == CtlRunFrameBegin(MaxThreadFrame)

ThrWorkerLoopTest == \E w \in Workers : WorkerLoopTest(w)

ThrWorkerArrive == \E w \in Workers : WorkerArrive(w)

ThrWorkerWake == \E w \in Workers : WorkerWake(w)

ThrWorkerRun == \E w \in Workers : WorkerRun(w)

ThrWorkerRunFrameReturns == \E w \in Workers : WorkerRunFrameReturns(w)

NextThreads ==
    \/ ThrSessionInit \/ ThrRunFrameBegin \/ CtlArrive \/ CtlWake \/ CtlRunFrameEnd
    \/ CtlStopThreads \/ CtlJoin
    \/ ThrWorkerLoopTest \/ ThrWorkerArrive \/ ThrWorkerWake \/ ThrWorkerRun
    \/ ThrWorkerRunFrameReturns

SpecThreads == Init /\ [][NextThreads]_vars

\* A thread blocked in Cv.wait whose generation has not moved.
CtlBlocked == ctlPc \in {"go_wait", "done_wait", "stop_wait"} /\ ctlGen = FrameBarrier.Generation

WorkerBlocked(w) == wPc[w] \in {"go_wait", "done_wait"} /\ wGen[w] = FrameBarrier.Generation

\* ------------------------------------------------------------------------
\* C4 (stated as claimed): StopThreads always terminates -- there is no
\* state in which the controller sits blocked in StopThreads' arrive_and_wait
\* while every instance thread has either exited or is itself blocked in
\* the barrier, so that nobody is left to release it.
\* ------------------------------------------------------------------------
C4_StopThreadsNeverStuck ==
    ~(/\ ctlPc = "stop_wait"
      /\ CtlBlocked
      /\ \A w \in LiveWorkers : wPc[w] = "exited" \/ WorkerBlocked(w))

\* ------------------------------------------------------------------------
\* SpecBlobSync: join / state sync over a reliable ordered control channel
\* ------------------------------------------------------------------------
SyncSessionInit ==
    \E s \in Sessions, numPlayers \in 2..MaxInstances :
        ~Active[s] /\ SessionInit(s, s, numPlayers, 0)

SyncTransportConnect == Active[0] /\ Active[1] /\ TransportConnect

SyncHostSendStates ==
    \E states \in [0..(NumInstances[0] - 1) -> BlobDatas], sram \in SramDatas :
        TransportConnected[1] /\ HostSendStates(states, sram)

SyncClientReceiveStates == \E failAt \in 0..NumInstances[1] : ClientReceiveStates(failAt)

NextBlobSync ==
    \/ SyncSessionInit \/ SyncTransportConnect \/ SyncHostSendStates
    \/ ClientHandleBlobMessage \/ SyncClientReceiveStates

SpecBlobSync == Init /\ [][NextBlobSync]_vars

\* ------------------------------------------------------------------------
\* C2 (stated as claimed): once HostSendStates has run for an N-instance
\* session and every Blob message it emitted has been delivered in send
\* order, all N savestate receivers BlobRecv[Blob_Savestate0 + i] are
\* complete together (or ClientReceiveStates has already passed its
\* completeness check and loaded them).
\* ------------------------------------------------------------------------
C2_StateSyncCompletes ==
    (/\ SentStates # <<>>
     /\ blobChan = <<>>
     /\ NumInstances[1] = NumInstances[0])
        => \/ StatesLoaded
           \/ \A b \in SavestateSlots(NumInstances[1]) : BlobRecv[b].Complete

\* ------------------------------------------------------------------------
\* SpecBlob: the client's receivers fed with arbitrary blob messages
\* ------------------------------------------------------------------------
InjectOffsets == (0..MaxBlobLen) \cup {-1}

InjectPayloads == UNION {[1..n -> Bytes] : n \in 0..ChunkSize}

BlobMsgs ==
    {[Type |-> "BlobStart", BlobType |-> Blob_Savestate0, TotalLen |-> n] : n \in 0..MaxBlobLen}
    \cup {[Type |-> "BlobChunk", Offset |-> o, Data |-> q] : o \in InjectOffsets, q \in InjectPayloads}
    \cup {[Type |-> "BlobEnd", BlobType |-> Blob_Savestate0, Checksum |-> c] : c \in 0..MaxBlobLen}

BlobSessionInit == ~Active[1] /\ SessionInit(1, 1, 2, 0)

BlobClientHandleInjected == \E msg \in BlobMsgs : ClientHandleInjected(msg)

BlobClientReceiveStates == \E failAt \in 0..NumInstances[1] : ClientReceiveStates(failAt)

NextBlob == BlobSessionInit \/ BlobClientHandleInjected \/ BlobClientReceiveStates

SpecBlob == Init /\ [][NextBlob]_vars

\* ------------------------------------------------------------------------
\* C5 (stated as claimed): a receiver handling BlobEnd becomes complete if
\* and only if its buffer's byte sum equals the carried checksum and every
\* byte of [0, total_len) was written by exactly one accepted chunk since
\* the last BlobStart.
\* ------------------------------------------------------------------------
C5_CompleteIffChecksumAndExactCover ==
    \A b \in BlobTypes :
        BlobEndObs[b].seen =>
            (BlobEndObs[b].completed <=> (BlobEndObs[b].sumOK /\ BlobEndObs[b].exact))

\* ------------------------------------------------------------------------
\* SpecLAN: the LAN control plane of one host machine and its clients
\* ------------------------------------------------------------------------
PlayerCounts == {2, 3}

ForgedPlayers == {[ID |-> id, Status |-> "Host", Address |-> 0] : id \in 0..2}

LanStartHost == \E numplayers \in PlayerCounts : StartHost(numplayers)

LanEndSession == \E m \in Machines : EndSession(m)

LanStartClientConnect == \E c \in ClientMachines : StartClientConnect(c)

LanStartClientService == \E c \in ClientMachines : StartClientService(c)

LanStartClientTimeout == \E c \in ClientMachines : StartClientTimeout(c)

LanNetThreadHostEvent == \E c \in ClientMachines : NetThreadHostEvent(c)

LanNetThreadClientEvent == \E c \in ClientMachines : NetThreadClientEvent(c)

LanBegin == \E m \in Machines : Begin(m)

LanEnd == \E m \in Machines : End(m)

LanForgedPlayerInfo ==
    \E c \in ClientMachines, valid \in BOOLEAN, player \in ForgedPlayers :
        ForgedPlayerInfo(c, valid, player)

NextLAN ==
    \/ LanStartHost \/ LanEndSession
    \/ LanStartClientConnect \/ LanStartClientService \/ LanStartClientTimeout
    \/ LanNetThreadHostEvent \/ LanNetThreadClientEvent
    \/ LanBegin \/ LanEnd

SpecLAN == Init /\ [][NextLAN]_vars

\* SpecPlayers: the same control plane with clients that forge PlayerInfo
NextPlayers ==
    \/ LanStartHost \/ LanEndSession
    \/ LanStartClientConnect \/ LanStartClientService \/ LanStartClientTimeout
    \/ LanNetThreadHostEvent \/ LanNetThreadClientEvent
    \/ LanForgedPlayerInfo

SpecPlayers == Init /\ [][NextPlayers]_vars

\* ------------------------------------------------------------------------
\* C6 (stated as claimed): on every LAN participant, every bit set in
\* ConnectedBitmask is the index of a player slot whose status is Host or
\* Client.
\* ------------------------------------------------------------------------
C6_ConnectedBitsAreHostOrClient ==
    \A m \in Machines : \A i \in ConnectedBitmask[m] :
        i \in PlayerSlots /\ Players[m][i].Status \in {"Host", "Client"}

\* ------------------------------------------------------------------------
\* C7: on every LAN participant no two player-table entries with a status
\* other than None carry the same id.
\* ------------------------------------------------------------------------
C7_NoTwoEntriesShareAnId ==
    \A m \in Machines : \A i \in Occupied(m) : \A j \in Occupied(m) \ {i} :
        Players[m][i].ID # Players[m][j].ID

\* ------------------------------------------------------------------------
\* C8: in the host's and every client's player table at most one entry has
\* status Host, and that entry's id is 0, whatever PlayerInfo clients send.
\* ------------------------------------------------------------------------
C8_AtMostOneHostWithIdZero ==
    \A m \in Machines :
        /\ Cardinality({i \in PlayerSlots : Players[m][i].Status = "Host"}) <= 1
        /\ \A i \in PlayerSlots : Players[m][i].Status = "Host" => Players[m][i].ID = 0

\* The host has accepted a PlayerInfo that claimed status Host (the forging
\* peer is still connected), and a client has received the resulting list.
C8_Witness ==
    /\ forged
    /\ \E c \in ClientMachines :
          /\ hostPeer[c] = "up" /\ toHost[c] = <<>> /\ toClient[c] = <<>>
          /\ LanActive[c]
          /\ Players[HostMachine][peerData[peerOf[c]]].Status = "Client"
          /\ Players[c] = Players[HostMachine]
          /\ \A d \in ClientMachines \ {c} : hostPeer[d] = "none"

\* ------------------------------------------------------------------------
\* C9 (stated as claimed): when a host and k clients have joined one after
\* the other (no connection ended since StartHost) and every event has been
\* delivered, GetPlayerList on every participant returns exactly k+1
\* entries with ids {0..k}, the host at id 0, and exactly one entry, the
\* participant's own, flagged IsLocalPlayer with the loopback address.
\* ------------------------------------------------------------------------
Joined(c) == LanActive[c] /\ clientPeerUp[c] /\ hostPeer[c] = "up"

JoinSettled ==
    /\ LanActive[HostMachine]
    /\ cleanJoin
    /\ \A c \in ClientMachines :
          /\ toHost[c] = <<>> /\ toClient[c] = <<>> /\ connPhase[c] = "idle"
          /\ Joined(c) \/ (hostPeer[c] = "none" /\ ~clientPeerUp[c])

ListAsClaimed(m, k) ==
    LET l == GetPlayerList(m)
    IN /\ Len(l) = k + 1
       /\ {l[i].ID : i \in 1..Len(l)} = 0..k
       /\ \A i \in 1..Len(l) : l[i].Status = "Host" <=> l[i].ID = 0
       /\ Cardinality({i \in 1..Len(l) : l[i].IsLocalPlayer}) = 1
       /\ \A i \in 1..Len(l) :
              l[i].IsLocalPlayer => l[i].ID = MyPlayer[m].ID /\ l[i].Address = kLocalhost

C9_PlayerListConvergesOnJoin ==
    JoinSettled =>
        LET joined == {c \in ClientMachines : Joined(c)}
        IN \A m \in {HostMachine} \cup joined : ListAsClaimed(m, Cardinality(joined))

\* ------------------------------------------------------------------------
\* SpecMP: the MP data plane between the host and one client machine
\* ------------------------------------------------------------------------
MpClients == {1}

MpMachines == {HostMachine} \cup MpClients

MpTypes == {0, 1, 2}

MpLengths == {0, 1}

ArrivingHeaders ==
    {[Long |-> lm[1], MagicOK |-> lm[2], SenderID |-> id, Type |-> 1, Length |-> 1,
      Payload |-> 1] :
        lm \in {<<FALSE, FALSE>>, <<TRUE, FALSE>>, <<TRUE, TRUE>>}, id \in 0..1}

MpPlayerCounts == {2}

MpStartHost == \E numplayers \in MpPlayerCounts : StartHost(numplayers)

MpEndSession == \E m \in MpMachines : EndSession(m)

MpStartClientConnect == \E c \in MpClients : StartClientConnect(c)

MpStartClientService == \E c \in MpClients : StartClientService(c)

MpStartClientTimeout == \E c \in MpClients : StartClientTimeout(c)

MpNetThreadHostEvent == \E c \in MpClients : NetThreadHostEvent(c)

MpNetThreadClientEvent == \E c \in MpClients : NetThreadClientEvent(c)

MpSendPacketGeneric ==
    \E m \in MpMachines, type \in MpTypes, len \in MpLengths : SendPacketGeneric(m, type, len)

MpArrivingMPPacket ==
    \E m \in MpMachines, c \in MpClients, header \in ArrivingHeaders :
        (m = HostMachine \/ m = c) /\ ArrivingMPPacket(m, c, header)

MpRecvPacketGeneric ==
    \E m \in MpMachines, block \in BOOLEAN, stale \in 0..MaxMPPackets :
        RecvPacketGeneric(m, block, stale)

NextMP ==
    \/ MpStartHost \/ MpEndSession
    \/ MpStartClientConnect \/ MpStartClientService \/ MpStartClientTimeout
    \/ MpNetThreadHostEvent \/ MpNetThreadClientEvent
    \/ MpSendPacketGeneric \/ MpArrivingMPPacket \/ MpRecvPacketGeneric

SpecMP == Init /\ [][NextMP]_vars

\* ------------------------------------------------------------------------
\* C10: no MP packet whose header SenderID equals the local player id is on
\* the RX queue (from which RecvPacket, RecvHostPacket and RecvReplies take
\* everything they return), and none is returned by RecvPacketGeneric.
\* ------------------------------------------------------------------------
C10_NoOwnPacketOnRXQueue ==
    \A m \in Machines :
        /\ \A i \in 1..Len(RXQueue[m]) : RXQueue[m][i].SenderID # MyPlayer[m].ID
        /\ \A i \in 1..Len(lastRecv[m]) : lastRecv[m][i].header.SenderID # lastRecv[m][i].localID

\* The network has delivered a well-formed packet carrying the receiver's own
\* id (it is on neither queue and both packets are spent), while a packet of
\* the other machine was accepted and returned to the consumer.
C10_Witness ==
    \E m \in MpMachines :
        /\ ownIdArrived
        /\ lastRecv[m] # <<>>
        /\ lastRecv[m][1].header.SenderID # MyPlayer[m].ID
        /\ RXQueue[m] = <<>>
        /\ \A c \in MpClients : toHost[c] = <<>> /\ toClient[c] = <<>>
        /\ LanActive[m]

\* ========================================================================
\* SpecRX: the consumer side of the RX queue against the clock.  One
\* emulation thread calls RecvPacket, RecvHostPacket and RecvReplies; the
\* network thread enqueues and the connected mask changes at any moment.
\* ========================================================================
RxGaps == {1, kStaleMs + 1}

RxTimeouts == {3, kDefaultRecvTimeout}

RxBits == {1}

RxAidMasks == {{2}, {1, 2}}

RxTick == \E d \in RxGaps : RxAdvance(d)

RxSetRecvTimeout == \E timeout \in RxTimeouts : SetRecvTimeout(timeout)

RxNetworkThread == \E pkt \in RxPackets : RxEnqueue(pkt)

RxConnectedChange == \E i \in RxBits, on \in BOOLEAN : RxSetConnected(i, on)

RxRecvReplies == \E aidmask \in RxAidMasks : RxRecvRepliesCall(aidmask)

NextRX ==
    \/ RxTick \/ RxSetRecvTimeout \/ RxNetworkThread \/ RxConnectedChange
    \/ RxRecvPacket \/ RxRecvHostPacket \/ RxRecvHostPacketWake
    \/ RxRecvReplies \/ RxRecvRepliesIterate

SpecRX == Init /\ [][NextRX]_vars

\* ------------------------------------------------------------------------
\* C11: no consumer call (RecvPacket, RecvHostPacket, RecvReplies) delivers
\* a packet whose receive stamp is more than 500 ms older than the
\* consumer's clock at the moment of delivery.
\* ------------------------------------------------------------------------
C11_NoStaleDelivery ==
    \A i \in 1..Len(rxDelivered) : rxDelivered[i].at - rxDelivered[i].Stamp <= kStaleMs


\* A RecvReplies call has returned
RepliesReturned == rxReturned # <<>> /\ rxReturned[1].by = "RecvReplies"

\* ------------------------------------------------------------------------
\* C12 as stated: RecvReplies returns exactly the mask whose bit a is set
\* iff a reply with associated id a was received and accepted (it passed the
\* type and timestamp filters) during the call.
\* ------------------------------------------------------------------------
C12_MaskIsAcceptedAids == RepliesReturned => rxReturned[1].ret = rxReturned[1].accepted

\* ------------------------------------------------------------------------
\* C12, amended: RecvReplies returns exactly the mask whose bit a is set iff
\* an accepted reply with associated id a and a non-empty payload was
\* received during the call; a call that saw no such reply returns 0.
\* ------------------------------------------------------------------------
C12_MaskIsFilledAids ==
    RepliesReturned =>
        /\ rxReturned[1].ret = rxReturned[1].filled
        /\ (rxReturned[1].accepted = {} => rxReturned[1].ret = {})

\* A call returned a non-zero mask, and another accepted reply of that call
\* had no payload.
C12_Witness ==
    /\ RepliesReturned
    /\ rxReturned[1].ret = {2}
    /\ rxReturned[1].accepted = {1, 2}

\* RecvReplies with the wait loop under weak fairness: the emulation thread
\* is scheduled, and sleep_for(1 ms) returns.
SpecRXFair == SpecRX /\ WF_vars(RxRecvRepliesIterate) /\ WF_vars(RxRecvHostPacketWake)

C14_HostPacketWaitsRecvTimeout ==
    (rxReturned # <<>> /\ rxReturned[1].by = "RecvHostPacket" /\ ~rxReturned[1].got) =>
        rxReturned[1].at - rxReturned[1].start >= rxReturned[1].timeout


\* ========================================================================
\* SpecRing: one session run once around the input ring, the local player
\* entering an input at some frames and skipping the others
\* ========================================================================
\* The slot holds what SetLocalInput stored for some input x
FromLocalInput(cell) ==
    \E x \in LocalInputs : [cell EXCEPT !.FrameNum = 0] = [x EXCEPT !.FrameNum = 0]

EnteredSlots(s) == {c \in DOMAIN InputBuf[s] : FromLocalInput(InputBuf[s][c])}

RingSessionInit ==
    \E localPlayerID \in 0..1, inputDelay \in 0..MaxDelay :
        ~Active[0] /\ SessionInit(0, localPlayerID, 2, inputDelay)

RingSetLocalInput ==
    \E input \in LocalInputs :
        /\ Active[0]
        /\ Cardinality(EnteredSlots(0)) < MaxLocalInputs
        /\ SetLocalInput(0, input)

RingRunFrame == RunFrame(0, MaxRingFrame) /\ LastStateHash'[0] = 0

NextRing == RingSessionInit \/ RingSetLocalInput \/ RingRunFrame

SpecRing == Init /\ [][NextRing]_vars

\* ------------------------------------------------------------------------
\* C15: fixed input delay.  An input x given to SetLocalInput at frame F
\* with delay d is stored with FrameNum F + d in slot (F + d) mod 256, and the
\* keys, touch and lid ApplyInputs feeds to the local player's instance are
\* those of x at frame F + d and at no other frame.
\* ------------------------------------------------------------------------
C15_InputAppliedAtItsFrameOnly ==
    \A s \in Sessions :
        /\ \A c \in EnteredSlots(s) :
              /\ c[1] = LocalPlayerID[s]
              /\ c[2] = InputBuf[s][c].FrameNum % INPUT_BUF_SIZE
        /\ (Applied[s].frame # -1 /\ FromLocalInput(Applied[s].inputs[LocalPlayerID[s]])) =>
              Applied[s].inputs[LocalPlayerID[s]].FrameNum = Applied[s].frame

\* ------------------------------------------------------------------------
\* C16: after a successful Init(localId, N, delay), for every player p < N
\* and every frame f in [0, delay) the ring slot [p][f] is ready and holds
\* the neutral input (KeyMask 0xFFF, not touching, lid open), and no other
\* slot is ready.
\* ------------------------------------------------------------------------
C16_InitPrefillsDelaySlots ==
    [][\A s \in Sessions :
         (~Active[s] /\ Active'[s]) =>
            \A p \in 0..(kNetplayMaxPlayers - 1), idx \in 0..(INPUT_BUF_SIZE - 1) :
               LET prefilled == p < NumInstances'[s]
                                /\ \E f \in 0..(InputDelay'[s] - 1) : f % INPUT_BUF_SIZE = idx
                   slot == Cell(InputBuf'[s], p, idx)
               IN /\ (<<p, idx>> \in InputReady'[s]) <=> prefilled
                  /\ prefilled => (slot.KeyMask = 4095 /\ slot.Touching = 0 /\ slot.LidClosed = 0)]_vars

\* Init with a delay has just returned: the delay slots of both players are
\* ready and nothing has been entered or consumed yet.
C16_Witness ==
    /\ Active[0]
    /\ InputDelay[0] = MaxDelay
    /\ NumInstances[0] = 2
    /\ CurrentFrame[0] = 0
    /\ Applied[0].frame = -1
    /\ InputReady[0] = {<<p, f>> : p \in 0..1, f \in 0..(MaxDelay - 1)}


\* The host's player table and what goes with it
HostTable ==
    <<Players[HostMachine], NumPlayers[HostMachine], RemotePeers[HostMachine],
      ConnectedBitmask[HostMachine]>>

\* ------------------------------------------------------------------------
\* C17: a connect that reaches the host while NumPlayers >= MaxPlayers (or
\* >= 16) is answered by disconnecting that peer, and neither the rejection
\* nor the rejected peer's later DISCONNECT event changes the host's player
\* table, NumPlayers, RemotePeers or ConnectedBitmask.
\* ------------------------------------------------------------------------
C17_FullHostRejectsWithoutSideEffects ==
    [][\A c \in ClientMachines :
         /\ (hostPeer[c] = "pending" /\ hostPeer'[c] # "pending" /\ LanActive'[HostMachine] /\ HostFull) =>
               /\ hostPeer'[c] = "rejected"
               /\ HostTable' = HostTable
         /\ (hostPeer[c] = "rejected" /\ hostPeer'[c] = "none" /\ LanActive'[HostMachine]) =>
               HostTable' = HostTable]_vars


\* ========================================================================
\* SpecEnd: a host and one client, with EndSession called at any moment,
\* also on a session that is not active
\* ========================================================================
EndEndSession == \E m \in MpMachines : EndSessionCall(m)

NextEnd ==
    \/ MpStartHost \/ EndEndSession
    \/ MpStartClientConnect \/ MpStartClientService \/ MpStartClientTimeout
    \/ MpNetThreadHostEvent \/ MpNetThreadClientEvent
    \/ MpSendPacketGeneric \/ MpRecvPacketGeneric

SpecEnd == Init /\ [][NextEnd]_vars

\* ------------------------------------------------------------------------
\* C18: EndSession is idempotent.  A call on a session that a first call
\* has ended leaves Active, IsHost, Host, RemotePeers and the RX queue as
\* they are, does not get past the Active test and performs no transport
\* operation (no disconnect is queued, no peer changes state).
\* ------------------------------------------------------------------------
C18_EndSessionIdempotent ==
    [][\A m \in Machines :
         (endLog'[m].calls = endLog[m].calls + 1 /\ endLog[m].calls >= 1 /\ ~LanActive[m]) =>
            /\ LanActive'[m] = LanActive[m]
            /\ IsHost'[m] = IsHost[m]
            /\ HasEnetHost(m)' = HasEnetHost(m)
            /\ RemotePeers'[m] = RemotePeers[m]
            /\ RXQueue'[m] = RXQueue[m]
            /\ endLog'[m].ran = endLog[m].ran
            /\ toHost' = toHost /\ toClient' = toClient
            /\ hostPeer' = hostPeer /\ clientPeerUp' = clientPeerUp]_vars

\* The host's session, with a client in it, was ended by a first call that
\* went through, and a second call has been made since.
C18_Witness ==
    /\ endLog[HostMachine] = [calls |-> 2, ran |-> 1]
    /\ ~LanActive[HostMachine]
    /\ ~IsHost[HostMachine]
    /\ \E i \in PlayerSlots : Players[HostMachine][i].Status = "Client"


\* ========================================================================
\* SpecDiscovery: one machine advertising or listening, its clock, and the
\* datagrams that reach its discovery socket
\* ========================================================================
DiscGaps == {500, kDiscoveryTickMs}

DiscTick == \E d \in DiscGaps : DiscAdvance(d)

DiscStartDiscovery == \E isHost \in BOOLEAN : StartDiscovery(isHost)

DiscBeaconArrives == \E beacon \in Beacons : BeaconArrives(beacon)

NextDiscovery ==
    DiscTick \/ DiscStartDiscovery \/ EndDiscovery \/ DiscBeaconArrives \/ ProcessDiscovery

SpecDiscovery == Init /\ [][NextDiscovery]_vars

\* GetDiscoveryList shows an entry for src
Listed(src) == src \in DOMAIN DiscoveryList

InsideBarrierCalls == ctlPc \in {"go_wait", "done_arrive", "done_wait"}

C20_FrameLoopExclusive ==
    /\ [](\A w \in Workers :
            wPc[w] = "run" =>
                /\ w \in LiveWorkers
                /\ InsideBarrierCalls
                /\ FrameBarrier.Generation % 2 = 1
                /\ InstFrames[w] = 0)
    /\ [](ctlPc = "frame_end" =>
            \A w \in Workers :
                /\ wPc[w] \in {"none", "done_wait", "loop", "go_arrive", "go_wait"}
                /\ InstFrames[w] = IF w \in LiveWorkers THEN 1 ELSE 0)
    /\ [][\A w \in Workers :
            InstFrames'[w] # InstFrames[w] =>
                \/ ctlPc = "idle" /\ ctlPc' = "go_arrive" /\ InstFrames'[w] = 0
                \/ /\ wPc[w] = "run" /\ wPc'[w] = "done_arrive"
                   /\ InstFrames'[w] = InstFrames[w] + 1
                   /\ ctlPc' = ctlPc]_vars

\* In the second frame (the barrier is being reused) the controller waits
\* in the 'done' call while instance 0 is still running its frame and
\* instance 1 has already finished.
C20_Witness ==
    /\ CurrentFrame[0] = 1
    /\ ctlPc = "done_wait"
    /\ wPc[0] = "run"
    /\ InstFrames[1] = 1
    /\ wPc[1] = "done_wait"

\* ------------------------------------------------------------------------
\* C21 (stated as claimed): blob receiver isolation -- when the client
\* handles a BlobStart or BlobEnd message of blob type T, only the receiver
\* BlobRecv[T] changes; every other blob type's receiver keeps its buffer,
\* complete flag and receiving flag.
\* ------------------------------------------------------------------------
C21_BlobMessageTouchesOwnReceiverOnly ==
    [][(/\ blobChan # <<>>
        /\ blobChan' = Tail(blobChan)
        /\ Head(blobChan).Type \in {"BlobStart", "BlobEnd"})
       => \A i \in BlobTypes \ {Head(blobChan).BlobType} : BlobRecv'[i] = BlobRecv[i]]_vars

\* ------------------------------------------------------------------------
\* C25 (stated as claimed): a receiving BlobTransfer accepts a BlobChunk
\* only at the next expected contiguous offset -- whenever a chunk adds to
\* ReceivedLen, the bytes it wrote are exactly the bytes from the old
\* ReceivedLen up to the new one, none of them written before.
\* ------------------------------------------------------------------------
C25_ChunksAcceptedInOrderOnly ==
    [][\A i \in BlobTypes :
          (/\ BlobRecv[i].Receiving /\ BlobRecv'[i].Receiving
           /\ BlobRecv'[i].ReceivedLen > BlobRecv[i].ReceivedLen)
          => /\ ~BlobRecv'[i].OutOfBounds
             /\ \A k \in 1..Len(BlobRecv[i].Written) :
                   BlobRecv'[i].Written[k] # BlobRecv[i].Written[k]
                   <=> (k > BlobRecv[i].ReceivedLen /\ k <= BlobRecv'[i].ReceivedLen)]_vars

\* ------------------------------------------------------------------------
\* C26 (stated as claimed): the chunk bounds check is exact under 32-bit
\* arithmetic -- no chunk whose offset + length exceeds total_len as
\* unbounded integers is ever copied, so no memcpy lands outside a
\* receiver's buffer.
\* ------------------------------------------------------------------------
C26_NoChunkCopiedOutOfBounds == \A i \in BlobTypes : ~BlobRecv[i].OutOfBounds

\* ------------------------------------------------------------------------
\* C22 (stated as claimed): peer loss clears exactly the departing player.
\* When the host handles the DISCONNECT event of an accepted peer, whose
\* data was bound to slot k at its CONNECT, then bit k of ConnectedBitmask
\* is clear, RemotePeers[k] is reset and slot k has status None afterwards,
\* and no other slot, peer reference or connected bit of the host changes.
\* When a client handles the DISCONNECT event of the host's peer (bound to
\* slot 0), bit 0 is clear, RemotePeers[0] is reset and slot 0 is marked
\* Disconnected, and nothing else of its table changes.
\* ------------------------------------------------------------------------
OthersUntouched(m, k) ==
    \A j \in PlayerSlots \ {k} :
        /\ Players'[m][j] = Players[m][j]
        /\ RemotePeers'[m][j] = RemotePeers[m][j]
        /\ (j \in ConnectedBitmask'[m]) = (j \in ConnectedBitmask[m])

C22_PeerLossClearsExactlyTheDeparting ==
    [][\A c \in ClientMachines :
         /\ (/\ LanActive[HostMachine] /\ LanActive'[HostMachine]
             /\ hostPeer[c] \in {"up", "closing"} /\ hostPeer'[c] = "none"
             /\ toHost[c] # <<>> /\ Head(toHost[c]).type = "DISCONNECT")
            => LET k == peerData[peerOf[c]]
               IN /\ k \notin ConnectedBitmask'[HostMachine]
                  /\ RemotePeers'[HostMachine][k] = NullPeer
                  /\ Players'[HostMachine][k].Status = "None"
                  /\ OthersUntouched(HostMachine, k)
         /\ (/\ LanActive[c] /\ LanActive'[c]
             /\ clientPeerUp[c] /\ ~clientPeerUp'[c]
             /\ toClient[c] # <<>> /\ Head(toClient[c]).type = "DISCONNECT")
            => /\ 0 \notin ConnectedBitmask'[c]
               /\ RemotePeers'[c][0] = NullPeer
               /\ Players'[c][0].Status = "Disconnected"
               /\ OthersUntouched(c, 0)]_vars

\* ------------------------------------------------------------------------
\* C23 (stated as claimed): host id allocation.  Whenever the host accepts
\* a connect, the id it binds to the peer lies in [1, MaxPlayers - 1], its
\* slot had status None, every lower id from 1 on was occupied, and the
\* ClientInit queued for the client carries that id and MaxPlayers.
\* ------------------------------------------------------------------------
C23_HostAssignsLowestFreeId ==
    [][\A c \in ClientMachines :
         (/\ LanActive[HostMachine] /\ LanActive'[HostMachine]
          /\ hostPeer[c] = "pending" /\ hostPeer'[c] = "up")
         => LET id == peerData'[peerOf[c]]
            IN /\ id >= 1 /\ id <= MaxPlayers[HostMachine] - 1
               /\ Players[HostMachine][id].Status = "None"
               /\ \A j \in 1..(id - 1) : Players[HostMachine][j].Status # "None"
               /\ clientPeerUp[c] =>
                     toClient'[c][Len(toClient'[c])] =
                         EvCmd(CmdClientInit(TRUE, id, MaxPlayers[HostMachine]))]_vars

\* ------------------------------------------------------------------------
\* C24 (stated as claimed): session end clears the player table.  When
\* EndSession has ended a machine's session no entry of its player table
\* has a status other than None, and when StartHost has started a session
\* the table holds exactly one entry that is not None -- the host, id 0 --
\* and NumPlayers = 1.
\* ------------------------------------------------------------------------
C24_EndSessionClearsPlayerTable ==
    [][\A m \in Machines :
         /\ (LanActive[m] /\ ~LanActive'[m]) => Occupied(m)' = {}
         /\ (m = HostMachine /\ ~LanActive[m] /\ LanActive'[m]) =>
               /\ Occupied(m)' = {0}
               /\ Players'[m][0].ID = 0 /\ Players'[m][0].Status = "Host"
               /\ NumPlayers'[m] = 1]_vars

\* ------------------------------------------------------------------------
\* SpecLocks: the LAN network thread, the emulation thread and the UI
\* thread running the operations of one LAN instance, one NetplayTransport
\* and one NetplaySession's input ring, one statement per step
\* ------------------------------------------------------------------------
EmuCalls ==
    {ProcessSteps(TRUE), ProcessSteps(FALSE), BeginSteps, EndSteps, SendPacketGenericSteps,
     RecvPacketGenericSteps, RecvRepliesSteps, SendToSteps, BroadcastSteps, PollSteps,
     SetLocalInputSteps, SetRemoteInputSteps, ReadyForFrameSteps, ApplyInputsSteps}

UiCalls == {EndSessionSteps, GetPlayerListSteps, StopSteps}

LocksEmuCall == \E steps \in EmuCalls : LockCall("emu", steps)

LocksUiCall == \E steps \in UiCalls : LockCall("ui", steps)

\* StartHost / StartClient are called with no session running
LocksUiStartSession ==
    /\ ~lkActive /\ lkHost["LAN"] = "null"
    /\ \E steps \in {StartHostSteps, StartClientSteps} : LockCall("ui", steps)

LocksUiTransportStartHost ==
    /\ lkHost["Transport"] = "null"
    /\ LockCall("ui", TransportStartHostSteps)

LocksStep == \E t \in LockThreads : LockStep(t)

NextLocks ==
    \/ LocksEmuCall \/ LocksUiCall \/ LocksUiStartSession \/ LocksUiTransportStartHost
    \/ LocksStep \/ NetworkThreadFuncLoop

SpecLocks == Init /\ [][NextLocks]_vars

\* The mutex that is to protect a shared object
MutexOf(obj) ==
    CASE obj = "LAN" -> "ENetMutex"
      [] obj = "Transport" -> "TransportMutex"
      [] obj = "RXQueue" -> "RXQueueMutex"
      [] obj = "Players" -> "PlayersMutex"
      [] obj \in {"InputBuf", "InputReady"} -> "InputMutex"

Holds(t, m) == lkHolder[m] = t

\* ------------------------------------------------------------------------
\* C27 (stated as claimed): each of the operations LAN SendPacketGeneric,
\* Begin, End, Process, NetworkThreadFunc and EndSession and NetplayTransport
\* SendTo, Broadcast, Poll and Stop holds the transport's mutex whenever it
\* sends on, polls or destroys the host object, and none of their sends or
\* polls touches a host object that is being destroyed or was destroyed.
\* ------------------------------------------------------------------------
TransportOperations ==
    {SendPacketGenericSteps, BeginSteps, EndSteps, ProcessSteps(TRUE), ProcessSteps(FALSE),
     EndSessionSteps, SendToSteps, BroadcastSteps, PollSteps, StopSteps}

C27_TransportTouchedUnderItsMutex ==
    \A t \in LockThreads :
        (/\ t = "net" \/ lkOp[t] \in TransportOperations
         /\ Ins(t).k \in {"use", "destroy"})
        => /\ Holds(t, MutexOf(Ins(t).a))
           /\ Ins(t).k = "use" => lkHost[Ins(t).a] = "live"

\* ------------------------------------------------------------------------
\* C28 (stated as claimed): every write to a player-table entry or to
\* NumPlayers is made by a thread that holds PlayersMutex, and no such
\* write is in progress while GetPlayerList reads the table.
\* ------------------------------------------------------------------------
C28_PlayerTableWrittenUnderPlayersMutex ==
    /\ \A t \in LockThreads : Ins(t) = Write("Players") => Holds(t, "PlayersMutex")
    /\ ~\E r, w \in LockThreads :
           /\ r # w
           /\ lkOp[r] = GetPlayerListSteps /\ Ins(r) = Read("Players")
           /\ Ins(w) = Write("Players")

\* ------------------------------------------------------------------------
\* C29 (stated as claimed): every read or write of an InputBuf or
\* InputReady cell is made by a thread that holds InputMutex.
\* ------------------------------------------------------------------------
C29_InputCellsAccessedUnderInputMutex ==
    \A t \in LockThreads :
        (Ins(t).k \in {"read", "write"} /\ Ins(t).a \in {"InputBuf", "InputReady"})
        => Holds(t, "InputMutex")

\* ------------------------------------------------------------------------
\* C30: lock ordering between the RX queue and the transport.  No thread
\* acquires or waits for ENetMutex (or the NetplayTransport mutex) while it
\* holds RXQueueMutex, and there is no state in which two threads each
\* wait for one of ENetMutex and RXQueueMutex that the other holds.
\* ------------------------------------------------------------------------
WaitsFor(t, m) == Ins(t) = Lock(m)

C30_NoTransportLockUnderRXQueueMutex ==
    /\ \A t \in LockThreads :
           (WaitsFor(t, "ENetMutex") \/ WaitsFor(t, "TransportMutex"))
           => ~Holds(t, "RXQueueMutex")
    /\ ~\E t1, t2 \in LockThreads :
           /\ t1 # t2
           /\ WaitsFor(t1, "ENetMutex") /\ Holds(t2, "ENetMutex")
           /\ WaitsFor(t2, "RXQueueMutex") /\ Holds(t1, "RXQueueMutex")

\* The network thread holds ENetMutex and RXQueueMutex together (it is
\* pushing a packet) while the emulation thread waits for RXQueueMutex.
C30_Witness ==
    /\ Holds("net", "ENetMutex") /\ Holds("net", "RXQueueMutex")
    /\ Ins("net") = Write("RXQueue")
    /\ WaitsFor("emu", "RXQueueMutex")

\* ------------------------------------------------------------------------
\* C31 (stated as claimed): on the host and on every client, the status of a
\* client slot (any slot but the host's slot 0) changes only along
\* None -> Connecting -> Client -> Disconnected -> None.
\* ------------------------------------------------------------------------
StatusChain ==
    {<<"None", "Connecting">>, <<"Connecting", "Client">>,
     <<"Client", "Disconnected">>, <<"Disconnected", "None">>}

C31_SlotStatusFollowsChain ==
    [][\A m \in Machines : \A k \in PlayerSlots \ {0} :
          Players'[m][k].Status # Players[m][k].Status =>
              <<Players[m][k].Status, Players'[m][k].Status>> \in StatusChain]_vars

\* ------------------------------------------------------------------------
\* C32 (stated as claimed): when the host handles a PlayerInfo whose magic or
\* version is wrong, or whose player id is not the id the host assigned to
\* the sending peer, it disconnects that peer, leaves its player table and
\* NumPlayers as they were and sends no PlayerList; a PlayerInfo that does
\* change the table sets the sender's own slot to Client and no other slot.
\* ------------------------------------------------------------------------
\* the host's network thread takes a PlayerInfo of client c off its queue
HandlesPlayerInfo(c) ==
    /\ LanActive[HostMachine] /\ LanActive'[HostMachine]
    /\ toHost[c] # <<>>
    /\ Head(toHost[c]).type = "RECEIVE"
    /\ Head(toHost[c]).chan = "Cmd"
    /\ Head(toHost[c]).body.cmd = "PlayerInfo"
    /\ \/ toHost'[c] = Tail(toHost[c])
       \/ hostPeer[c] = "up" /\ hostPeer'[c] = "closing"

\* the id the host gave to the peer of c at its CONNECT: the index of the
\* slot the peer's data points to
IdAssignedTo(c) == peerData[peerOf[c]]

PlayerInfoBad(c) ==
    \/ ~Head(toHost[c]).body.valid
    \/ Head(toHost[c]).body.player.ID # IdAssignedTo(c)

NoPlayerListSent ==
    \A d \in ClientMachines :
        \/ toClient'[d] = toClient[d]
        \/ toClient'[d] = Append(toClient[d], EvDisconnect)

C32_BadPlayerInfoDisconnectsOnly ==
    [][\A c \in ClientMachines :
          HandlesPlayerInfo(c) =>
              IF PlayerInfoBad(c)
              THEN /\ hostPeer'[c] = "closing"
                   /\ Players'[HostMachine] = Players[HostMachine]
                   /\ NumPlayers'[HostMachine] = NumPlayers[HostMachine]
                   /\ NoPlayerListSent
              ELSE Players'[HostMachine] # Players[HostMachine] =>
                       /\ Players'[HostMachine][IdAssignedTo(c)].Status = "Client"
                       /\ OthersUntouched(HostMachine, IdAssignedTo(c))]_vars

\* ------------------------------------------------------------------------
\* Specification for the handshake claims: the LAN session with ClientInit
\* packets of any content reaching a client inside StartClient.
\* ------------------------------------------------------------------------
ClientInitIds == {1, 16}

ClientInitMaxPlayers == {2, 17}

HsArrivingClientInit ==
    \E c \in ClientMachines, valid \in BOOLEAN, id \in ClientInitIds,
       maxPlayers \in ClientInitMaxPlayers :
        ArrivingClientInit(c, valid, id, maxPlayers)

NextHandshake ==
    \/ LanStartHost
    \/ LanStartClientConnect \/ LanStartClientService \/ LanStartClientTimeout
    \/ LanNetThreadHostEvent \/ LanNetThreadClientEvent
    \/ HsArrivingClientInit

SpecHandshake == Init /\ [][NextHandshake]_vars

\* ------------------------------------------------------------------------
\* C33 (stated as claimed): StartClient goes active only on a ClientInit that
\* is well-formed (length 11, magic, version), has max_players <= 16 and an
\* assigned id in 0..15; MyPlayer.ID of an active client is in 0..15; and a
\* StartClient that ends without going active leaves no ENet host open.
\* ------------------------------------------------------------------------
C33_ClientInitAcceptedOnlyInRange ==
    /\ [][\A c \in ClientMachines :
             /\ (connPhase[c] # "idle" /\ LanActive'[c]) =>
                   /\ toClient[c] # <<>>
                   /\ Head(toClient[c]).type = "RECEIVE"
                   /\ Head(toClient[c]).body.cmd = "ClientInit"
                   /\ Head(toClient[c]).body.valid
                   /\ Head(toClient[c]).body.maxPlayers <= 16
                   /\ Head(toClient[c]).body.id \in PlayerSlots
             /\ (connPhase[c] # "idle" /\ connPhase'[c] = "idle" /\ ~LanActive'[c]) =>
                   ~HasEnetHost(c)']_vars
    /\ [](\A c \in ClientMachines : LanActive[c] => MyPlayer[c].ID \in PlayerSlots)

\* ------------------------------------------------------------------------
\* Specification for the packet size claim: the MP data plane with arriving
\* packets whose Length field and payload size are chosen independently.
\* Payload is dataLength - sizeof(MPPacketHeader).
\* ------------------------------------------------------------------------
SizedHeaders ==
    {[Long |-> TRUE, MagicOK |-> TRUE, SenderID |-> id, Type |-> 1, Length |-> len,
      Payload |-> 1] : id \in 0..1, len \in {2}}
    \cup ArrivingHeaders

MszArrivingMPPacket ==
    \E m \in MpMachines, c \in MpClients, header \in SizedHeaders :
        /\ (m = HostMachine \/ m = c)
        /\ RXQueue[m] = <<>>
        /\ ArrivingMPPacket(m, c, header)

NextMPSize ==
    \/ MpStartHost \/ MpEndSession
    \/ MpStartClientConnect \/ MpStartClientService \/ MpStartClientTimeout
    \/ MpNetThreadHostEvent \/ MpNetThreadClientEvent
    \/ MpSendPacketGeneric \/ MszArrivingMPPacket \/ MpRecvPacketGeneric

SpecMPSize == Init /\ [][NextMPSize]_vars

\* ------------------------------------------------------------------------
\* C34 (stated as claimed): every packet on an RX queue has a Length field
\* equal to the size of its payload, and RecvPacketGeneric never copies more
\* payload bytes than the packet it returns contains.
\* ------------------------------------------------------------------------
C34_OnlySizeConsistentPacketsDelivered ==
    \A m \in Machines :
        /\ \A i \in 1..Len(RXQueue[m]) : RXQueue[m][i].Length = RXQueue[m][i].Payload
        /\ \A i \in 1..Len(lastRecv[m]) : lastRecv[m][i].copied <= lastRecv[m][i].header.Payload

\* ------------------------------------------------------------------------
\* C35 (stated as claimed): the mask RecvReplies returns is a subset of the
\* caller's aidmask, and no reply whose associated id is outside aidmask is
\* copied into the caller's packet buffer.
\* ------------------------------------------------------------------------
C35_RepliesWithinAidmask ==
    RepliesReturned =>
        /\ rxReturned[1].ret \subseteq rxReturned[1].aidmask
        /\ rxReturned[1].filled \subseteq rxReturned[1].aidmask

\* ------------------------------------------------------------------------
\* Specification for the frame-number claim: the engine of SpecEngine with
\* remote inputs whose FrameNum is late, current, or a whole ring
\* (INPUT_BUF_SIZE frames) and more ahead.
\* ------------------------------------------------------------------------
WrapFrameNums == {0, 1, INPUT_BUF_SIZE, INPUT_BUF_SIZE + 1}

WrapHandleInputMessage ==
    \E peerIdx \in 0..(kNetplayMaxPlayers - 1), f \in WrapFrameNums, input \in LocalInputs :
        Active[0] /\ HandleInputMessage(0, peerIdx, [input EXCEPT !.FrameNum = f])

NextWrap == EngSessionInit \/ EngSetLocalInput \/ WrapHandleInputMessage \/ EngRunFrame

SpecWrap == Init /\ [][NextWrap]_vars

\* ------------------------------------------------------------------------
\* C36 (stated as claimed): every input ApplyInputs(F) feeds to an instance
\* carries FrameNum = F and does not come from a cell that was never written
\* (the zeroed frame of memset).
\* ------------------------------------------------------------------------
C36_AppliedInputCarriesItsFrame ==
    \A s \in Sessions :
        Applied[s].frame # -1 =>
            \A p \in 0..(Applied[s].n - 1) :
                /\ Applied[s].inputs[p].FrameNum = Applied[s].frame
                /\ Applied[s].inputs[p] # ZeroInput

\* ------------------------------------------------------------------------
\* Specification for the start-of-game claim: the engine of SpecEngine with
\* StartGame messages arriving on the control channel.
\* ------------------------------------------------------------------------
StartFrames == {0, 2}

StartHandleStartGame ==
    \E frame \in StartFrames, inputDelay \in 0..MaxDelay :
        Active[0] /\ HandleStartGame(0, frame, inputDelay)

NextStart == EngSessionInit \/ EngSetLocalInput \/ StartHandleStartGame \/ EngRunFrame

SpecStart == Init /\ [][NextStart]_vars

\* ------------------------------------------------------------------------
\* C37 (stated as claimed): once a StartGame{frame, delay} message has been
\* handled, the ring slots of every player for the frames frame ..
\* frame + delay - 1 are ready.
\* ------------------------------------------------------------------------
C37_StartGameKeepsPrefill ==
    [][\A frame \in StartFrames, inputDelay \in 0..MaxDelay :
          (Active[0] /\ HandleStartGame(0, frame, inputDelay)) =>
              \A p \in 0..(NumInstances'[0] - 1), f \in frame..(frame + inputDelay - 1) :
                  <<p, f % INPUT_BUF_SIZE>> \in InputReady'[0]]_vars

\* ------------------------------------------------------------------------
\* Specification for the peer index claim: a hosting session, its transport
\* and clients that connect, send inputs and disconnect.
\* ------------------------------------------------------------------------
TpPlayerCounts == {2, kNetplayMaxPlayers}

TpSessionInit ==
    \E numPlayers \in TpPlayerCounts : ~Active[0] /\ SessionInit(0, 0, numPlayers, 0)

TpPollConnect == \E p \in TpEnetPeers : PollConnect(p)

TpPollDisconnect == \E p \in TpEnetPeers : PollDisconnect(p)

TpPollReceive ==
    \E p \in TpEnetPeers, input \in LocalInputs : Active[0] /\ PollReceive(p, input)

NextTransport ==
    \/ TpSessionInit \/ TransportStartHost \/ TransportStop
    \/ TpPollConnect \/ TpPollDisconnect \/ TpPollReceive

SpecTransport == Init /\ [][NextTransport]_vars

\* ------------------------------------------------------------------------
\* C38 (stated as claimed): on a hosting session every connected peer the
\* transport has accepted has a peer index k with 0 <= k < NumInstances - 1
\* (its inputs go to the existing remote player k + 1), and k is an index of
\* the Peers array.
\* ------------------------------------------------------------------------
C38_PeerIndexNamesExistingPlayer ==
    (Active[0] /\ tpHost) =>
        \A p \in tpUp :
            /\ tpPeerData[p] \in 0..(NumInstances[0] - 2)
            /\ tpPeerData[p] \in PeerIndexes

\* ------------------------------------------------------------------------
\* Specification for the bitmask agreement claim: the host and one client
\* machine, with Begin and End, under weak fairness of the network threads
\* and of StartClient's handshake loop (the threads run, enet_host_service
\* returns the events that are queued).
\* ------------------------------------------------------------------------
AgreeBegin == \E m \in MpMachines : Begin(m)

AgreeEnd == \E m \in MpMachines : End(m)

NextAgree ==
    \/ MpStartHost \/ MpEndSession
    \/ MpStartClientConnect \/ MpStartClientService \/ MpStartClientTimeout
    \/ MpNetThreadHostEvent \/ MpNetThreadClientEvent
    \/ AgreeBegin \/ AgreeEnd

SpecAgree ==
    /\ Init /\ [][NextAgree]_vars
    /\ WF_vars(MpNetThreadHostEvent)
    /\ WF_vars(MpNetThreadClientEvent)
    /\ WF_vars(MpStartClientService)

\* m takes part in the session: the host while active, a client while it is
\* active and its connection to the host is up on both sides
Participant(m) ==
    IF m = HostMachine THEN LanActive[m] ELSE LanActive[HostMachine] /\ Joined(m)

\* m has called Begin and not End since: its own bit is set in its bitmask
HasBegun(m) == MyPlayer[m].ID \in ConnectedBitmask[m]

BegunAndConnected(i, j) == Participant(i) /\ HasBegun(i) /\ Participant(j)

\* ------------------------------------------------------------------------
\* C39 (stated as claimed): while player i has called Begin, has not called
\* End and stays connected, every other participant j, whether it joined
\* before or after i's Begin, eventually has bit i set in its
\* ConnectedBitmask.
\* ------------------------------------------------------------------------
C39_ConnectedBitmaskAgreement ==
    \A i \in MpMachines : \A j \in MpMachines \ {i} :
        BegunAndConnected(i, j) ~>
            (MyPlayer[i].ID \in ConnectedBitmask[j] \/ ~BegunAndConnected(i, j))

\* ------------------------------------------------------------------------
\* C40 (stated as claimed): on every machine with an active session,
\* LastHostPeer is null or names a peer whose DISCONNECT event has not been
\* processed there (on the host the peer of that client, on a client the
\* peer of the host).
\* ------------------------------------------------------------------------
C40_LastHostPeerIsLive ==
    \A m \in Machines :
        (LanActive[m] /\ LastHostPeer[m] # NullPeer) =>
            IF m = HostMachine
            THEN hostPeer[LastHostPeer[m]] # "none"
            ELSE clientPeerUp[m]

====
